---- MODULE Spec2Model ----
(***************************************************************************)
(* The security policy engine of dbus-mcp (src/dbus_mcp/security.py) and   *)
(* the tool handlers that consult it (src/dbus_mcp/tools/).                *)
(*                                                                         *)
(* Names (D-Bus method names, service names, tool names, glob patterns)    *)
(* are sequences of one-character strings, so that glob matching, the      *)
(* substring test and split('.') are computed character by character.      *)
(* Time is wall-clock time in whole seconds.                               *)
(***************************************************************************)
EXTENDS Integers, Sequences, FiniteSets, TLC

VARIABLES
    safety_level,       \* SecurityPolicy.safety_level
    operation_history,  \* SecurityPolicy.operation_history: key -> timestamps
    audit_log,          \* SecurityPolicy.audit_log: sequence of entries
    now,                \* the wall clock read by datetime.now()
    profile,            \* the SystemProfile the server was started with
    req,                \* the request being served (inputs of the call)
    ret,                \* the last call made on the engine and what it returned
    allowed_calls,      \* history: key -> times of all rate-limit checks that passed
    n_calls,            \* history: number of engine calls made so far
    dbus_calls,         \* history: D-Bus method calls issued by tool handlers
    facade_checks,      \* history: engine checks made by tool handlers
    next_request        \* number of the next client request

vars == << safety_level, operation_history, audit_log, now, profile, req, ret,
           allowed_calls, n_calls, dbus_calls, facade_checks, next_request >>

None == "None"

\* ---------------------------------------------------------------- constants

SAFETY_HIGH == "high"
SAFETY_MEDIUM == "medium"
SAFETY_LOW == "low"

SafetyLevels == {SAFETY_HIGH, SAFETY_MEDIUM, SAFETY_LOW}

OPERATION_CATEGORIES ==
  <<
    \* read_state (security.py:40)
    [ name |-> "read_state",
      patterns |-> <<
        <<"G","e","t","*">>,  \* Get*
        <<"L","i","s","t","*">>,  \* List*
        <<"Q","u","e","r","y","*">>,  \* Query*
        <<"I","s","*">>,  \* Is*
        <<"H","a","s","*">>,  \* Has*
        <<"R","e","a","d","*">>   \* Read*
      >>,
      safety_level |-> "high",
      forbidden |-> FALSE,
      requires_interaction |-> FALSE,
      interaction_type |-> "unknown" ],
    \* user_notification (security.py:45)
    [ name |-> "user_notification",
      patterns |-> <<
        <<"N","o","t","i","f","y">>,  \* Notify
        <<"S","h","o","w","N","o","t","i","f","i","c","a","t","i","o","n">>,  \* ShowNotification
        <<"A","l","e","r","t">>,  \* Alert
        <<"C","l","o","s","e","N","o","t","i","f","i","c","a","t","i","o","n">>   \* CloseNotification
      >>,
      safety_level |-> "high",
      forbidden |-> FALSE,
      requires_interaction |-> FALSE,
      interaction_type |-> "unknown" ],
    \* clipboard_read (security.py:50)
    [ name |-> "clipboard_read",
      patterns |-> <<
        <<"*","C","l","i","p","b","o","a","r","d","C","o","n","t","e","n","t","s">>,  \* *ClipboardContents
        <<"G","e","t","C","l","i","p","b","o","a","r","d","*">>,  \* GetClipboard*
        <<"R","e","a","d","C","l","i","p","b","o","a","r","d","*">>   \* ReadClipboard*
      >>,
      safety_level |-> "high",
      forbidden |-> FALSE,
      requires_interaction |-> FALSE,
      interaction_type |-> "unknown" ],
    \* media_control (security.py:55)
    [ name |-> "media_control",
      patterns |-> <<
        <<"P","l","a","y">>,  \* Play
        <<"P","a","u","s","e">>,  \* Pause
        <<"N","e","x","t">>,  \* Next
        <<"P","r","e","v","i","o","u","s">>,  \* Previous
        <<"S","t","o","p">>,  \* Stop
        <<"P","l","a","y","P","a","u","s","e">>   \* PlayPause
      >>,
      safety_level |-> "high",
      forbidden |-> FALSE,
      requires_interaction |-> FALSE,
      interaction_type |-> "unknown" ],
    \* text_input (security.py:62)
    [ name |-> "text_input",
      patterns |-> <<
        <<"*","I","n","p","u","t","*">>,  \* *Input*
        <<"I","n","s","e","r","t","T","e","x","t">>,  \* InsertText
        <<"T","y","p","e","T","e","x","t">>,  \* TypeText
        <<"S","e","n","d","K","e","y","s">>,  \* SendKeys
        <<"S","e","t","T","e","x","t","*">>,  \* SetText*
        <<"s","e","n","d","T","e","x","t">>,  \* sendText
        <<"S","e","n","d","M","e","s","s","a","g","e">>,  \* SendMessage
        <<"C","o","m","p","o","s","e","E","m","a","i","l">>,  \* ComposeEmail
        <<"W","r","i","t","e","D","o","c","u","m","e","n","t">>   \* WriteDocument
      >>,
      safety_level |-> "medium",
      forbidden |-> FALSE,
      requires_interaction |-> FALSE,
      interaction_type |-> "unknown" ],
    \* clipboard_write (security.py:68)
    [ name |-> "clipboard_write",
      patterns |-> <<
        <<"S","e","t","C","l","i","p","b","o","a","r","d","*">>,  \* SetClipboard*
        <<"W","r","i","t","e","C","l","i","p","b","o","a","r","d","*">>,  \* WriteClipboard*
        <<"C","o","p","y","T","o","*">>   \* CopyTo*
      >>,
      safety_level |-> "medium",
      forbidden |-> FALSE,
      requires_interaction |-> FALSE,
      interaction_type |-> "unknown" ],
    \* file_navigation (security.py:73)
    [ name |-> "file_navigation",
      patterns |-> <<
        <<"O","p","e","n","*">>,  \* Open*
        <<"S","h","o","w","*">>,  \* Show*
        <<"N","a","v","i","g","a","t","e","*">>,  \* Navigate*
        <<"B","r","o","w","s","e","*">>,  \* Browse*
        <<"R","e","v","e","a","l","*">>,  \* Reveal*
        <<"D","i","s","p","l","a","y","*">>,  \* Display*
        <<"L","o","a","d","*">>,  \* Load*
        <<"V","i","e","w","*">>   \* View*
      >>,
      safety_level |-> "medium",
      forbidden |-> FALSE,
      requires_interaction |-> FALSE,
      interaction_type |-> "unknown" ],
    \* window_management (security.py:79)
    [ name |-> "window_management",
      patterns |-> <<
        <<"A","c","t","i","v","a","t","e","*">>,  \* Activate*
        <<"F","o","c","u","s","*">>,  \* Focus*
        <<"R","a","i","s","e","*">>,  \* Raise*
        <<"M","i","n","i","m","i","z","e","*">>,  \* Minimize*
        <<"S","e","t","A","c","t","i","v","e","*">>,  \* SetActive*
        <<"a","c","t","i","v","a","t","e">>,  \* activate
        <<"f","o","c","u","s">>,  \* focus
        <<"r","a","i","s","e">>,  \* raise
        <<"l","o","w","e","r">>,  \* lower
        <<"s","h","o","w">>,  \* show
        <<"h","i","d","e">>,  \* hide
        <<"c","a","s","c","a","d","e","D","e","s","k","t","o","p">>,  \* cascadeDesktop
        <<"u","n","c","l","u","t","t","e","r","D","e","s","k","t","o","p">>,  \* unclutterDesktop
        <<"s","h","o","w","D","e","s","k","t","o","p">>,  \* showDesktop
        <<"n","e","x","t","D","e","s","k","t","o","p">>,  \* nextDesktop
        <<"p","r","e","v","i","o","u","s","D","e","s","k","t","o","p">>,  \* previousDesktop
        <<"h","i","g","h","l","i","g","h","t","W","i","n","d","o","w","s">>   \* highlightWindows
      >>,
      safety_level |-> "medium",
      forbidden |-> FALSE,
      requires_interaction |-> FALSE,
      interaction_type |-> "unknown" ],
    \* desktop_navigation (security.py:87)
    [ name |-> "desktop_navigation",
      patterns |-> <<
        <<"*","D","e","s","k","t","o","p">>,  \* *Desktop
        <<"s","w","i","t","c","h","T","o","*">>,  \* switchTo*
        <<"m","o","v","e","T","o","D","e","s","k","t","o","p","*">>   \* moveToDesktop*
      >>,
      safety_level |-> "medium",
      forbidden |-> FALSE,
      requires_interaction |-> FALSE,
      interaction_type |-> "unknown" ],
    \* screenshot (security.py:92)
    [ name |-> "screenshot",
      patterns |-> <<
        <<"S","c","r","e","e","n","s","h","o","t","*">>,  \* Screenshot*
        <<"C","a","p","t","u","r","e","*">>,  \* Capture*
        <<"G","r","a","b","*">>   \* Grab*
      >>,
      safety_level |-> "medium",
      forbidden |-> FALSE,
      requires_interaction |-> FALSE,
      interaction_type |-> "unknown" ],
    \* screen_brightness (security.py:97)
    [ name |-> "screen_brightness",
      patterns |-> <<
        <<"*","B","r","i","g","h","t","n","e","s","s","*">>,  \* *Brightness*
        <<"S","e","t","B","r","i","g","h","t","n","e","s","s">>,  \* SetBrightness
        <<"A","d","j","u","s","t","B","r","i","g","h","t","n","e","s","s","*">>   \* AdjustBrightness*
      >>,
      safety_level |-> "medium",
      forbidden |-> FALSE,
      requires_interaction |-> FALSE,
      interaction_type |-> "unknown" ],
    \* interactive_selection (security.py:104)
    [ name |-> "interactive_selection",
      patterns |-> <<
        <<"q","u","e","r","y","*">>,  \* query*
        <<"*","I","n","t","e","r","a","c","t","i","v","e","*">>,  \* *Interactive*
        <<"p","i","c","k","*">>,  \* pick*
        <<"s","e","l","e","c","t","*">>   \* select*
      >>,
      safety_level |-> "medium",
      forbidden |-> FALSE,
      requires_interaction |-> TRUE,
      interaction_type |-> "user_selection" ],
    \* interactive_confirmation (security.py:111)
    [ name |-> "interactive_confirmation",
      patterns |-> <<
        <<"c","o","n","f","i","r","m","*">>,  \* confirm*
        <<"a","p","p","r","o","v","e","*">>,  \* approve*
        <<"a","u","t","h","e","n","t","i","c","a","t","e","*">>   \* authenticate*
      >>,
      safety_level |-> "medium",
      forbidden |-> FALSE,
      requires_interaction |-> TRUE,
      interaction_type |-> "user_confirmation" ],
    \* window_close (security.py:120)
    [ name |-> "window_close",
      patterns |-> <<
        <<"C","l","o","s","e","*">>,  \* Close*
        <<"Q","u","i","t","*">>,  \* Quit*
        <<"E","x","i","t","*">>,  \* Exit*
        <<"k","i","l","l","W","i","n","d","o","w">>,  \* killWindow
        <<"t","e","r","m","i","n","a","t","e","*">>   \* terminate*
      >>,
      safety_level |-> "low",
      forbidden |-> FALSE,
      requires_interaction |-> FALSE,
      interaction_type |-> "unknown" ],
    \* process_control (security.py:125)
    [ name |-> "process_control",
      patterns |-> <<
        <<"S","t","a","r","t","*">>,  \* Start*
        <<"S","t","o","p","*">>,  \* Stop*
        <<"R","e","s","t","a","r","t","*">>,  \* Restart*
        <<"K","i","l","l","*">>,  \* Kill*
        <<"T","e","r","m","i","n","a","t","e","*">>   \* Terminate*
      >>,
      safety_level |-> "low",
      forbidden |-> FALSE,
      requires_interaction |-> FALSE,
      interaction_type |-> "unknown" ],
    \* system_config (security.py:130)
    [ name |-> "system_config",
      patterns |-> <<
        <<"S","e","t","*">>,  \* Set*
        <<"C","o","n","f","i","g","u","r","e","*">>,  \* Configure*
        <<"U","p","d","a","t","e","*">>,  \* Update*
        <<"C","h","a","n","g","e","*">>,  \* Change*
        <<"A","p","p","l","y","*">>   \* Apply*
      >>,
      safety_level |-> "low",
      forbidden |-> FALSE,
      requires_interaction |-> FALSE,
      interaction_type |-> "unknown" ],
    \* document_operations (security.py:137)
    [ name |-> "document_operations",
      patterns |-> <<
        <<"S","a","v","e","*">>,  \* Save*
        <<"E","x","p","o","r","t","*">>,  \* Export*
        <<"P","r","i","n","t","*">>,  \* Print*
        <<"C","o","n","v","e","r","t","*">>   \* Convert*
      >>,
      safety_level |-> "medium",
      forbidden |-> FALSE,
      requires_interaction |-> FALSE,
      interaction_type |-> "unknown" ],
    \* communication (security.py:142)
    [ name |-> "communication",
      patterns |-> <<
        <<"S","e","n","d","M","e","s","s","a","g","e">>,  \* SendMessage
        <<"S","e","n","d","E","m","a","i","l">>,  \* SendEmail
        <<"S","e","n","d","I","M">>,  \* SendIM
        <<"P","o","s","t","S","t","a","t","u","s">>   \* PostStatus
      >>,
      safety_level |-> "medium",
      forbidden |-> FALSE,
      requires_interaction |-> FALSE,
      interaction_type |-> "unknown" ],
    \* media_management (security.py:147)
    [ name |-> "media_management",
      patterns |-> <<
        <<"A","d","d","T","o","P","l","a","y","l","i","s","t">>,  \* AddToPlaylist
        <<"I","m","p","o","r","t","M","e","d","i","a">>,  \* ImportMedia
        <<"T","a","g","F","i","l","e">>,  \* TagFile
        <<"O","r","g","a","n","i","z","e","P","h","o","t","o","s">>   \* OrganizePhotos
      >>,
      safety_level |-> "medium",
      forbidden |-> FALSE,
      requires_interaction |-> FALSE,
      interaction_type |-> "unknown" ],
    \* search_operations (security.py:152)
    [ name |-> "search_operations",
      patterns |-> <<
        <<"S","e","a","r","c","h","*">>,  \* Search*
        <<"F","i","n","d","*">>,  \* Find*
        <<"L","o","c","a","t","e","*">>,  \* Locate*
        <<"Q","u","e","r","y","I","n","d","e","x">>   \* QueryIndex
      >>,
      safety_level |-> "high",
      forbidden |-> FALSE,
      requires_interaction |-> FALSE,
      interaction_type |-> "unknown" ],
    \* window_info (security.py:157)
    [ name |-> "window_info",
      patterns |-> <<
        <<"q","u","e","r","y","W","i","n","d","o","w","I","n","f","o">>,  \* queryWindowInfo
        <<"g","e","t","W","i","n","d","o","w","I","n","f","o">>,  \* getWindowInfo
        <<"c","u","r","r","e","n","t","D","e","s","k","t","o","p">>,  \* currentDesktop
        <<"s","u","p","p","o","r","t","I","n","f","o","r","m","a","t","i","o","n">>,  \* supportInformation
        <<"a","c","t","i","v","e","O","u","t","p","u","t","N","a","m","e">>   \* activeOutputName
      >>,
      safety_level |-> "high",
      forbidden |-> FALSE,
      requires_interaction |-> FALSE,
      interaction_type |-> "unknown" ],
    \* system_power (security.py:165)
    [ name |-> "system_power",
      patterns |-> <<
        <<"P","o","w","e","r","O","f","f">>,  \* PowerOff
        <<"R","e","b","o","o","t">>,  \* Reboot
        <<"S","h","u","t","d","o","w","n">>,  \* Shutdown
        <<"S","u","s","p","e","n","d">>,  \* Suspend
        <<"H","i","b","e","r","n","a","t","e">>   \* Hibernate
      >>,
      safety_level |-> "None",
      forbidden |-> TRUE,
      requires_interaction |-> FALSE,
      interaction_type |-> "unknown" ],
    \* data_destruction (security.py:170)
    [ name |-> "data_destruction",
      patterns |-> <<
        <<"D","e","l","e","t","e","*">>,  \* Delete*
        <<"R","e","m","o","v","e","*">>,  \* Remove*
        <<"F","o","r","m","a","t","*">>,  \* Format*
        <<"D","e","s","t","r","o","y","*">>,  \* Destroy*
        <<"W","i","p","e","*">>   \* Wipe*
      >>,
      safety_level |-> "None",
      forbidden |-> TRUE,
      requires_interaction |-> FALSE,
      interaction_type |-> "unknown" ],
    \* package_management (security.py:175)
    [ name |-> "package_management",
      patterns |-> <<
        <<"I","n","s","t","a","l","l","*">>,  \* Install*
        <<"U","n","i","n","s","t","a","l","l","*">>,  \* Uninstall*
        <<"R","e","m","o","v","e","P","a","c","k","a","g","e","*">>,  \* RemovePackage*
        <<"U","p","d","a","t","e","P","a","c","k","a","g","e","*">>   \* UpdatePackage*
      >>,
      safety_level |-> "None",
      forbidden |-> TRUE,
      requires_interaction |-> FALSE,
      interaction_type |-> "unknown" ]
  >>

\* ------------------------------------------------------------- the classifier

\* 'sub in s' on strings
Contains(sub, s) ==
    \E i \in 0..(Len(s) - Len(sub)) : SubSeq(s, i + 1, i + Len(sub)) = sub

\* fnmatch.fnmatch(name, pat) on a POSIX host: no case folding; '*' matches any
\* run of characters (the empty one included), '?' any one character, every
\* other pattern character itself; the whole name must match.  No pattern of
\* the catalog holds a '[' class.
RECURSIVE fnmatch(_, _)
fnmatch(name, pat) ==
    IF pat = << >> THEN name = << >>
    ELSE IF Head(pat) = "*"
         THEN fnmatch(name, Tail(pat))
              \/ (name # << >> /\ fnmatch(Tail(name), pat))
    ELSE IF Head(pat) = "?"
         THEN name # << >> /\ fnmatch(Tail(name), Tail(pat))
    ELSE name # << >> /\ Head(name) = Head(pat)
         /\ fnmatch(Tail(name), Tail(pat))

\* the inner loop of _categorize_method: some pattern of the list matches
RECURSIVE MatchesFrom(_, _, _)
MatchesFrom(method, patterns, j) ==
    IF j > Len(patterns) THEN FALSE
    ELSE IF fnmatch(method, patterns[j]) THEN TRUE
    ELSE MatchesFrom(method, patterns, j + 1)

\* the outer loop of _categorize_method, from category i on, in dict order
RECURSIVE CategorizeFrom(_, _)
CategorizeFrom(method, i) ==
    IF i > Len(OPERATION_CATEGORIES) THEN None
    ELSE IF MatchesFrom(method, OPERATION_CATEGORIES[i].patterns, 1)
         THEN OPERATION_CATEGORIES[i].name
    ELSE CategorizeFrom(method, i + 1)

\* a classifier that keeps searching and returns the last matching category
RECURSIVE CategorizeLastFrom(_, _, _)
CategorizeLastFrom(method, i, found) ==
    IF i > Len(OPERATION_CATEGORIES) THEN found
    ELSE IF MatchesFrom(method, OPERATION_CATEGORIES[i].patterns, 1)
         THEN CategorizeLastFrom(method, i + 1, OPERATION_CATEGORIES[i].name)
    ELSE CategorizeLastFrom(method, i + 1, found)

categorize_method_last(method) == CategorizeLastFrom(method, 1, None)

\* SecurityPolicy._categorize_method
categorize_method(method) == CategorizeFrom(method, 1)

\* OPERATION_CATEGORIES[category]
CategoryInfo(category) ==
    LET i == CHOOSE k \in 1..Len(OPERATION_CATEGORIES) :
                 OPERATION_CATEGORIES[k].name = category
    IN  OPERATION_CATEGORIES[i]

\* ------------------------------------------------------------ the safety gate

\* a gate whose medium tier is open at medium only
TierAllows_MediumOnly(required_level, level) ==
    IF required_level = "high" THEN TRUE
    ELSE IF required_level = "medium" /\ level = "medium" THEN TRUE
    ELSE IF required_level = "low" /\ level = "low" THEN TRUE
    ELSE FALSE

\* is_method_allowed, the if/elif chain on the category's safety_level
TierAllows(required_level, level) ==
    IF required_level = "high" THEN TRUE
    ELSE IF required_level = "medium" /\ level \in {"medium", "low"} THEN TRUE
    ELSE IF required_level = "low" /\ level = "low" THEN TRUE
    ELSE FALSE

klipper == <<"k","l","i","p","p","e","r">>
setClipboardContents ==
    <<"s","e","t","C","l","i","p","b","o","a","r","d","C","o","n","t","e","n","t","s">>
activate == <<"a","c","t","i","v","a","t","e">>

\* a tail that lets every unclassified method through at level low
UncategorizedVerdict_OpenAtLow(level, service, interface, method) ==
    level = "low"

\* is_method_allowed, for a method no category claims: the two special cases,
\* then deny
UncategorizedVerdict(level, service, interface, method) ==
    IF level \in {"medium", "low"}
       /\ method = setClipboardContents /\ Contains(klipper, service)
    THEN TRUE
    ELSE IF level \in {"medium", "low"}
            /\ method = activate /\ interface = "org.kde.Kate.Application"
    THEN TRUE
    ELSE FALSE

\* a gate that takes the two names of its last branch there without asking
\* the catalog
is_method_allowed_SpecialFirst(level, service, interface, method) ==
    IF method \in { setClipboardContents, activate }
    THEN UncategorizedVerdict(level, service, interface, method)
    ELSE LET category == categorize_method(method) IN
         IF category # None
         THEN LET category_info == CategoryInfo(category) IN
              IF category_info.forbidden THEN FALSE
              ELSE TierAllows(category_info.safety_level, level)
         ELSE UncategorizedVerdict(level, service, interface, method)

\* SecurityPolicy.is_method_allowed
is_method_allowed(level, service, interface, method) ==
    LET category == categorize_method(method) IN
    IF category # None
    THEN LET category_info == CategoryInfo(category) IN
         IF category_info.forbidden THEN FALSE
         ELSE TierAllows(category_info.safety_level, level)
    ELSE UncategorizedVerdict(level, service, interface, method)

\* what get_method_interaction_info returns for None
NoInteractionInfo ==
    [ is_none |-> TRUE, requires_interaction |-> FALSE,
      interaction_type |-> "", category |-> "" ]

\* an advisory for every method that has a category
get_method_interaction_info_AnyCategory(method) ==
    LET category == categorize_method(method) IN
    IF category = None THEN NoInteractionInfo
    ELSE [ is_none |-> FALSE,
           requires_interaction |-> TRUE,
           interaction_type |-> CategoryInfo(category).interaction_type,
           category |-> category ]

\* SecurityPolicy.get_method_interaction_info: the dict returned, without its
\* description, or None
get_method_interaction_info(method) ==
    LET category == categorize_method(method) IN
    IF category = None THEN NoInteractionInfo
    ELSE IF CategoryInfo(category).requires_interaction
    THEN [ is_none |-> FALSE,
           requires_interaction |-> TRUE,
           interaction_type |-> CategoryInfo(category).interaction_type,
           category |-> category ]
    ELSE NoInteractionInfo

\* ------------------------------------------------------------ the rate limiter

t_screenshot == <<"s","c","r","e","e","n","s","h","o","t">>
t_capture_screenshot ==
    <<"c","a","p","t","u","r","e","_","s","c","r","e","e","n","s","h","o","t">>
t_notify == <<"n","o","t","i","f","y">>
t_clipboard_write ==
    <<"c","l","i","p","b","o","a","r","d",".","w","r","i","t","e">>
t_system_service_restart ==
    <<"s","y","s","t","e","m",".","s","e","r","v","i","c","e","_","r","e","s","t","a","r","t">>
t_default == <<"d","e","f","a","u","l","t">>

\* SecurityPolicy.DEFAULT_RATE_LIMITS (operations per minute)
DEFAULT_RATE_LIMITS ==
    [ k \in { t_default, t_notify, t_clipboard_write, t_screenshot,
              t_system_service_restart } |->
        CASE k = t_default -> 60
          [] k = t_notify -> 10
          [] k = t_clipboard_write -> 30
          [] k = t_screenshot -> 5
          [] k = t_system_service_restart -> 5 ]

\* timedelta(minutes=1), in seconds
OneMinute == 60

\* operation_history[tool_name] of a defaultdict(list)
HistoryOf(history, tool_name) ==
    IF tool_name \in DOMAIN history THEN history[tool_name] ELSE << >>

\* operation_history[tool_name] = timestamps
HistoryPut(history, tool_name, timestamps) ==
    [ k \in (DOMAIN history) \cup {tool_name} |->
        IF k = tool_name THEN timestamps ELSE history[k] ]

\* one history shared by every tool name
HistoryKey_Shared(tool_name) == << >>

\* the key under which _check_rate_limit files a tool's timestamps
HistoryKey(tool_name) == tool_name

\* cleaning with a window twice as long
CleanOldEntries_TwoMinutes(timestamps, t) ==
    SelectSeq(timestamps, LAMBDA timestamp : timestamp > t - (OneMinute + OneMinute))

\* "Clean old entries": keep each timestamp > one_minute_ago
CleanOldEntries(timestamps, t) ==
    SelectSeq(timestamps, LAMBDA timestamp : timestamp > t - OneMinute)

\* "Get rate limit for this operation"
RateLimitOf(tool_name) ==
    IF tool_name \in DOMAIN DEFAULT_RATE_LIMITS
    THEN DEFAULT_RATE_LIMITS[tool_name]
    ELSE DEFAULT_RATE_LIMITS[t_default]

\* a comparison that lets one call too many through
AtLimit_OffByOne(timestamps, limit) == Len(timestamps) > limit

\* "Check if under limit": len(history) >= limit
AtLimit(timestamps, limit) == Len(timestamps) >= limit

\* a limiter that records the denied call too
DeniedHistory_Recording(timestamps, t) == Append(timestamps, t)

\* what the history of the key holds when the check returns False
DeniedHistory(timestamps, t) == timestamps

\* SecurityPolicy._check_rate_limit at time t: the verdict and the new store
check_rate_limit(history, tool_name, t) ==
    LET key == HistoryKey(tool_name)
        cleaned == CleanOldEntries(HistoryOf(history, key), t)
        limit == RateLimitOf(tool_name)
    IN  IF AtLimit(cleaned, limit)
        THEN [ allowed |-> FALSE,
               history |-> HistoryPut(history, key, DeniedHistory(cleaned, t)) ]
        ELSE [ allowed |-> TRUE,
               history |-> HistoryPut(history, key, Append(cleaned, t)) ]

\* SecurityPolicy.get_rate_limit_status at time t: for every key of the
\* store, the number of its timestamps inside the window and its limit; the
\* percentage (recent_count / limit) * 100 is kept as the fraction it is
get_rate_limit_status(history, t) ==
    [ tool_name \in DOMAIN history |->
        LET recent_count == Len(CleanOldEntries(history[tool_name], t))
            limit == RateLimitOf(tool_name)
        IN  [ current |-> recent_count,
              limit |-> limit,
              percentage |-> [ num |-> recent_count * 100, den |-> limit ] ] ]

\* ---------------------------------------------------------------- the audit log

\* the high-water mark of the audit log and what a truncation keeps
AuditCap == 10000
AuditKeep == 5000

sensitive_fields == {"password", "token", "secret", "key"}

\* a denylist without 'key'
sanitize_arguments_NoKey(arguments) ==
    [ field \in DOMAIN arguments |->
        IF field \in {"password", "token", "secret"} THEN "<redacted>"
        ELSE arguments[field] ]

\* SecurityPolicy._sanitize_arguments: a copy with the sensitive fields redacted
sanitize_arguments(arguments) ==
    [ field \in DOMAIN arguments |->
        IF field \in sensitive_fields THEN "<redacted>" ELSE arguments[field] ]

\* the caller's map after _sanitize_arguments returns: the redaction is
\* written to arguments.copy(), never to the map passed in
ArgumentsAfterSanitize(arguments) == arguments

\* a truncation that starts one record early
audit_log_entry_EarlyCap(log, t, tool_name, arguments, result) ==
    LET entry == [ timestamp |-> t,
                   tool |-> tool_name,
                   arguments |-> sanitize_arguments(arguments),
                   result |-> result ]
        appended == Append(log, entry)
    IN  IF Len(appended) >= AuditCap
        THEN SubSeq(appended, Len(appended) - AuditKeep + 1, Len(appended))
        ELSE appended

\* a truncation that keeps the oldest records
audit_log_entry_KeepOldest(log, t, tool_name, arguments, result) ==
    LET entry == [ timestamp |-> t,
                   tool |-> tool_name,
                   arguments |-> sanitize_arguments(arguments),
                   result |-> result ]
        appended == Append(log, entry)
    IN  IF Len(appended) > AuditCap
        THEN SubSeq(appended, 1, AuditKeep)
        ELSE appended

\* _audit_log keeping two results only, allowed and denied
audit_log_entry_Coarse(log, t, tool_name, arguments, result) ==
    LET entry == [ timestamp |-> t,
                   tool |-> tool_name,
                   arguments |-> sanitize_arguments(arguments),
                   result |-> IF result = "allowed" THEN "allowed" ELSE "denied" ]
        appended == Append(log, entry)
    IN  IF Len(appended) > AuditCap
        THEN SubSeq(appended, Len(appended) - AuditKeep + 1, Len(appended))
        ELSE appended

\* SecurityPolicy._audit_log at time t: the log after the entry is added
audit_log_entry(log, t, tool_name, arguments, result) ==
    LET entry == [ timestamp |-> t,
                   tool |-> tool_name,
                   arguments |-> sanitize_arguments(arguments),
                   result |-> result ]
        appended == Append(log, entry)
    IN  IF Len(appended) > AuditCap
        THEN SubSeq(appended, Len(appended) - AuditKeep + 1, Len(appended))
        ELSE appended

\* seq[start:] of a Python list: a negative start counts from the end
PySliceFrom(seq, start) ==
    LET from == IF start < 0
                THEN (IF Len(seq) + start < 0 THEN 0 ELSE Len(seq) + start)
                ELSE (IF start > Len(seq) THEN Len(seq) ELSE start)
    IN  SubSeq(seq, from + 1, Len(seq))

\* the limit get_audit_log takes when the caller gives none
DefaultLimit == 100

\* SecurityPolicy.get_audit_log: self.audit_log[-limit:]
get_audit_log(log, limit) == PySliceFrom(log, 0 - limit)

\* ------------------------------------------------------------------- profiles

c_clipboard == <<"c","l","i","p","b","o","a","r","d">>
c_screenshot == <<"s","c","r","e","e","n","s","h","o","t">>
c_notifications == <<"n","o","t","i","f","i","c","a","t","i","o","n","s">>
c_media == <<"m","e","d","i","a">>
c_system == <<"s","y","s","t","e","m">>
c_desktop == <<"d","e","s","k","t","o","p">>

ToolCategories ==
    { c_clipboard, c_screenshot, c_notifications, c_media, c_system, c_desktop }

\* SystemProfile.get_available_tools
BaseAvailableTools(has_display) ==
    [ c \in ToolCategories |-> IF c = c_desktop THEN has_display ELSE TRUE ]

\* GenericProfile.get_available_tools
GenericAvailableTools(has_display) ==
    [ c \in ToolCategories |->
        CASE c = c_clipboard -> FALSE
          [] c = c_screenshot -> FALSE
          [] c = c_notifications -> TRUE
          [] c = c_media -> TRUE
          [] c = c_system -> FALSE
          [] c = c_desktop -> has_display ]

\* KDEArchProfile: base availability, Klipper clipboard adapter
KDEArchProfile(has_display, init_system) ==
    [ name |-> "kde-arch",
      available_tools |-> BaseAvailableTools(has_display),
      has_display |-> has_display,
      init_system |-> init_system,
      clipboard_adapter |-> "klipper" ]

\* GenericProfile: conservative availability, portal clipboard adapter
GenericProfile(has_display, init_system) ==
    [ name |-> "generic",
      available_tools |-> GenericAvailableTools(has_display),
      has_display |-> has_display,
      init_system |-> init_system,
      clipboard_adapter |-> "portal" ]

\* the environments the server is started in
Profiles ==
    { KDEArchProfile(TRUE, "systemd"),
      KDEArchProfile(FALSE, "openrc"),
      GenericProfile(TRUE, "unknown") }

\* ----------------------------------------------------------- check_operation

t_system_shutdown ==
    <<"s","y","s","t","e","m",".","s","h","u","t","d","o","w","n">>
t_system_reboot == <<"s","y","s","t","e","m",".","r","e","b","o","o","t">>
t_system_poweroff ==
    <<"s","y","s","t","e","m",".","p","o","w","e","r","o","f","f">>
t_system_format_disk ==
    <<"s","y","s","t","e","m",".","f","o","r","m","a","t","_","d","i","s","k">>
t_system_install_package ==
    <<"s","y","s","t","e","m",".","i","n","s","t","a","l","l","_","p","a","c","k","a","g","e">>
t_system_remove_package ==
    <<"s","y","s","t","e","m",".","r","e","m","o","v","e","_","p","a","c","k","a","g","e">>

\* SecurityPolicy.FORBIDDEN_OPERATIONS
FORBIDDEN_OPERATIONS ==
    { t_system_shutdown, t_system_reboot, t_system_poweroff,
      t_system_format_disk, t_system_install_package, t_system_remove_package }

\* a forbidden list that holds the shutdown only
is_forbidden_ShutdownOnly(tool_name) == tool_name = t_system_shutdown

\* SecurityPolicy._is_forbidden
is_forbidden(tool_name) == tool_name \in FORBIDDEN_OPERATIONS

\* tool_name.split('.')[0]
RECURSIVE SplitFirst(_)
SplitFirst(s) ==
    IF s = << >> THEN << >>
    ELSE IF Head(s) = "." THEN << >>
    ELSE << Head(s) >> \o SplitFirst(Tail(s))

\* s.startswith(prefix)
StartsWith(s, prefix) ==
    Len(s) >= Len(prefix) /\ SubSeq(s, 1, Len(prefix)) = prefix

system_dot == <<"s","y","s","t","e","m",".">>

\* the arguments check_operation takes after self: tool_name, arguments and
\* profile, none of them with a default
CheckOperationParameters == 3

\* a check_operation for which a category the profile does not list is
\* not available
check_operation_AbsentIsDisabled(history, log, t, tool_name, arguments, prof) ==
    LET started == audit_log_entry(log, t, tool_name, arguments, "check_started")
        rate == check_rate_limit(history, tool_name, t)
        tool_category == SplitFirst(tool_name)
    IN  IF is_forbidden(tool_name)
        THEN [ allowed |-> FALSE,
               reason |-> "Operation is forbidden",
               history |-> history,
               audit_log |-> audit_log_entry(started, t, tool_name, arguments,
                                             "forbidden") ]
        ELSE IF ~ rate.allowed
        THEN [ allowed |-> FALSE,
               reason |-> "Rate limit exceeded",
               history |-> rate.history,
               audit_log |-> audit_log_entry(started, t, tool_name, arguments,
                                             "rate_limited") ]
        ELSE IF tool_category \notin DOMAIN prof.available_tools
                \/ ~ prof.available_tools[tool_category]
        THEN [ allowed |-> FALSE,
               reason |-> "Tool category not available in profile",
               history |-> rate.history,
               audit_log |-> audit_log_entry(started, t, tool_name, arguments,
                                             "not_available_in_profile") ]
        ELSE IF StartsWith(tool_name, system_dot) /\ prof.init_system # "systemd"
        THEN [ allowed |-> FALSE,
               reason |-> "System tools require systemd",
               history |-> rate.history,
               audit_log |-> started ]
        ELSE [ allowed |-> TRUE,
               reason |-> "Operation allowed",
               history |-> rate.history,
               audit_log |-> audit_log_entry(started, t, tool_name, arguments,
                                             "allowed") ]

\* SecurityPolicy.check_operation at time t: the pair returned, and the stores
\* as the call leaves them.  The reason strings stand for the f-strings of the
\* code without the tool name filled in.
check_operation(history, log, t, tool_name, arguments, prof) ==
    LET started == audit_log_entry(log, t, tool_name, arguments, "check_started")
        rate == check_rate_limit(history, tool_name, t)
        tool_category == SplitFirst(tool_name)
    IN  IF is_forbidden(tool_name)
        THEN [ allowed |-> FALSE,
               reason |-> "Operation is forbidden",
               history |-> history,
               audit_log |-> audit_log_entry(started, t, tool_name, arguments,
                                             "forbidden") ]
        ELSE IF ~ rate.allowed
        THEN [ allowed |-> FALSE,
               reason |-> "Rate limit exceeded",
               history |-> rate.history,
               audit_log |-> audit_log_entry(started, t, tool_name, arguments,
                                             "rate_limited") ]
        ELSE IF tool_category \in DOMAIN prof.available_tools
                /\ ~ prof.available_tools[tool_category]
        THEN [ allowed |-> FALSE,
               reason |-> "Tool category not available in profile",
               history |-> rate.history,
               audit_log |-> audit_log_entry(started, t, tool_name, arguments,
                                             "not_available_in_profile") ]
        ELSE IF StartsWith(tool_name, system_dot) /\ prof.init_system # "systemd"
        THEN [ allowed |-> FALSE,
               reason |-> "System tools require systemd",
               history |-> rate.history,
               audit_log |-> started ]
        ELSE [ allowed |-> TRUE,
               reason |-> "Operation allowed",
               history |-> rate.history,
               audit_log |-> audit_log_entry(started, t, tool_name, arguments,
                                             "allowed") ]

\* ------------------------------------------------------------------- bounds

MaxWords == 2       \* words joined into one method name
MaxTime == 62       \* the clock stops here (seconds)
MaxCalls == 7       \* calls made on the engine in one run
PreFill == 58       \* calls already recorded at time 0 by a run under way
MaxRequests == 3    \* client requests served in one run
MaxOps == 2         \* calls made on the engine's public checks in one run
MaxLimit == 2       \* the largest small limit get_audit_log is called with
NumTasks == 3       \* request tasks in flight at once

\* -------------------------------------------------------------------- inputs

\* the words method names are built from
Words ==
    { <<"G","e","t">>,
      <<"s","e","t">>,
      <<"C","l","i","p","b","o","a","r","d","C","o","n","t","e","n","t","s">>,
      <<"a","c","t","i","v","a","t","e">>,
      <<"U","p","d","a","t","e">>,
      <<"P","a","c","k","a","g","e">>,
      <<"D","e","l","e","t","e">>,
      <<"I","n","p","u","t">>,
      <<"q","u","e","r","y">>,
      <<"c","o","n","f","i","r","m">>,
      <<"F","o","o">> }

\* every name of at most n words, the empty name included
RECURSIVE NamesUpTo(_)
NamesUpTo(n) ==
    IF n = 0 THEN { << >> }
    ELSE LET shorter == NamesUpTo(n - 1)
         IN  shorter \cup { p \o w : p \in shorter, w \in Words }

MethodNames == NamesUpTo(MaxWords)

org_kde_klipper == <<"o","r","g",".","k","d","e",".","k","l","i","p","p","e","r">>
org_kde_kate == <<"o","r","g",".","k","d","e",".","k","a","t","e">>

Services == { org_kde_klipper, org_kde_kate }
Interfaces == { "org.kde.klipper.klipper", "org.kde.Kate.Application" }

\* what a caller may pass as safety_level
SafetyArgs == { None, "high", "medium", "low", "paranoid", "HIGH", "" }

\* the keys the rate limiter is exercised on: one with its own limit, one
\* under the default limit
RateKeys == { t_screenshot, t_capture_screenshot }

\* the clock advances in steps of these many seconds
TickSteps == { 30, 31 }

\* a step that takes the clock past a whole rate window
WindowSteps == { 61 }

\* the tool names check_operation is called with
OperationNames ==
    { t_capture_screenshot, t_screenshot, t_clipboard_write,
      t_system_service_restart, t_system_shutdown }

\* the argument maps check_operation is called with
ArgumentMaps ==
    { [ type |-> "screen", target |-> "full_screen" ],
      [ title |-> "y", password |-> "x" ] }

m_Get == <<"G","e","t">>
m_Delete == <<"D","e","l","e","t","e">>
m_Foo == <<"F","o","o">>

\* the method names clients ask call_method for
RequestedMethods == { m_Get, m_Delete, m_Foo, activate }

m_Notify == <<"N","o","t","i","f","y">>
m_CaptureActiveWindow ==
    <<"C","a","p","t","u","r","e","A","c","t","i","v","e","W","i","n","d","o","w">>

m_CaptureImage == <<"C","a","p","t","u","r","e","I","m","a","g","e">>
m_Screenshot == <<"S","c","r","e","e","n","s","h","o","t">>
m_ScreenshotWindow ==
    <<"S","c","r","e","e","n","s","h","o","t","W","i","n","d","o","w">>

\* what the two screenshot tools pass to check_operation, and the method
\* each calls on the bus under KDE and elsewhere
ScreenshotTargets ==
    { [ type |-> "screen", target |-> "full_screen",
        kde_method |-> m_CaptureImage, method |-> m_Screenshot ],
      [ type |-> "window", target |-> "active_window",
        kde_method |-> m_CaptureActiveWindow, method |-> m_ScreenshotWindow ] }

NoReq == [ service |-> << >>, interface |-> "", method |-> << >> ]

NoRet ==
    [ op |-> "none", key |-> << >>, service |-> << >>, interface |-> "",
      allowed |-> FALSE, reason |-> "", category |-> "", at |-> 0 ]

\* n copies of x
Repeat(x, n) == [ i \in 1..n |-> x ]

\* ---------------------------------------------------------------------- Init

\* a constructor that keeps whatever it is given
InitSafetyLevel_KeepGiven(arg) == IF arg = None THEN SAFETY_HIGH ELSE arg

\* SecurityPolicy.__init__: the level the engine ends up with
InitSafetyLevel(arg) ==
    LET given == IF arg = None THEN SAFETY_HIGH ELSE arg
    IN  IF given \notin { SAFETY_HIGH, SAFETY_MEDIUM, SAFETY_LOW }
        THEN SAFETY_HIGH
        ELSE given

\* SecurityPolicy.__init__ and the history variables of a fresh process
InitEngine ==
    /\ \E arg \in SafetyArgs : safety_level = InitSafetyLevel(arg)
    /\ operation_history = << >>
    /\ audit_log = << >>
    /\ now = 0
    /\ ret = NoRet
    /\ allowed_calls = [ k \in RateKeys |-> << >> ]
    /\ n_calls = 0
    /\ dbus_calls = {}
    /\ facade_checks = {}
    /\ next_request = 1

\* the server after start-up, no request received yet
Init ==
    /\ InitEngine
    /\ profile \in Profiles
    /\ req = NoReq

\* one call of the method gate: the engine after construction and the
\* arguments of the call
InitGate ==
    /\ InitEngine
    /\ profile = KDEArchProfile(TRUE, "systemd")
    /\ req \in [ service : Services, interface : Interfaces, method : MethodNames ]

\* the rate limiter: a fresh engine, or one on which the default-limit key
\* has been checked PreFill times at time 0
InitRate ==
    /\ safety_level = InitSafetyLevel(None)
    /\ \E n \in { 0, PreFill } :
         /\ operation_history =
               IF n = 0 THEN << >>
               ELSE HistoryPut(<< >>, t_capture_screenshot, Repeat(0, n))
         /\ allowed_calls =
               [ k \in RateKeys |->
                   IF k = t_capture_screenshot THEN Repeat(0, n) ELSE << >> ]
    /\ audit_log = << >>
    /\ now = 0
    /\ ret = NoRet
    /\ n_calls = 0
    /\ dbus_calls = {}
    /\ facade_checks = {}
    /\ next_request = 1
    /\ profile = KDEArchProfile(TRUE, "systemd")
    /\ req = NoReq

\* ------------------------------------------------------------------- actions

\* time passes
Tick(d) ==
    /\ now + d <= MaxTime
    /\ now' = now + d
    /\ UNCHANGED << safety_level, operation_history, audit_log, profile, req, ret,
                    allowed_calls, n_calls, dbus_calls, facade_checks, next_request >>

\* a call of SecurityPolicy._categorize_method
CategorizeMethod(method) ==
    /\ n_calls < MaxCalls
    /\ ret' = [ NoRet EXCEPT !.op = "_categorize_method",
                             !.at = now,
                             !.key = method,
                             !.category = categorize_method(method) ]
    /\ n_calls' = n_calls + 1
    /\ UNCHANGED << safety_level, operation_history, audit_log, now, profile, req,
                    allowed_calls, dbus_calls, facade_checks, next_request >>

\* a gate that also counts its calls against the method's rate limit
IsMethodAllowed_RateLimited(service, interface, method) ==
    LET rate == check_rate_limit(operation_history, method, now) IN
    /\ n_calls < MaxCalls
    /\ operation_history' = rate.history
    /\ ret' = [ NoRet EXCEPT !.op = "is_method_allowed",
                             !.at = now,
                             !.key = method,
                             !.service = service,
                             !.interface = interface,
                             !.allowed = rate.allowed
                                /\ is_method_allowed(safety_level, service,
                                                     interface, method) ]
    /\ n_calls' = n_calls + 1
    /\ UNCHANGED << safety_level, audit_log, now, profile, req,
                    allowed_calls, dbus_calls, facade_checks, next_request >>

\* a call of SecurityPolicy.is_method_allowed
IsMethodAllowed(service, interface, method) ==
    /\ n_calls < MaxCalls
    /\ ret' = [ NoRet EXCEPT !.op = "is_method_allowed",
                             !.at = now,
                             !.key = method,
                             !.service = service,
                             !.interface = interface,
                             !.allowed = is_method_allowed(safety_level, service,
                                                           interface, method) ]
    /\ n_calls' = n_calls + 1
    /\ UNCHANGED << safety_level, operation_history, audit_log, now, profile, req,
                    allowed_calls, dbus_calls, facade_checks, next_request >>

\* a call of SecurityPolicy.get_method_interaction_info
GetMethodInteractionInfo(method) ==
    /\ n_calls < MaxCalls
    /\ ret' = [ op |-> "get_method_interaction_info",
                at |-> now,
                key |-> method,
                info |-> get_method_interaction_info(method) ]
    /\ n_calls' = n_calls + 1
    /\ UNCHANGED << safety_level, operation_history, audit_log, now, profile, req,
                    allowed_calls, dbus_calls, facade_checks, next_request >>

\* a status call that puts the engine back to its default level
GetRateLimitStatus_Resetting ==
    /\ n_calls < MaxOps
    /\ safety_level' = SAFETY_HIGH
    /\ ret' = [ op |-> "get_rate_limit_status",
                at |-> now,
                status |-> get_rate_limit_status(operation_history, now) ]
    /\ n_calls' = n_calls + 1
    /\ UNCHANGED << operation_history, audit_log, now, profile, req,
                    allowed_calls, dbus_calls, facade_checks, next_request >>

\* a call of SecurityPolicy.get_rate_limit_status
GetRateLimitStatus ==
    /\ n_calls < MaxOps
    /\ ret' = [ op |-> "get_rate_limit_status",
                at |-> now,
                status |-> get_rate_limit_status(operation_history, now) ]
    /\ n_calls' = n_calls + 1
    /\ UNCHANGED << safety_level, operation_history, audit_log, now, profile, req,
                    allowed_calls, dbus_calls, facade_checks, next_request >>

\* a call of SecurityPolicy._check_rate_limit
CheckRateLimit(tool_name) ==
    LET rate == check_rate_limit(operation_history, tool_name, now) IN
    /\ n_calls < MaxCalls
    /\ operation_history' = rate.history
    /\ ret' = [ NoRet EXCEPT !.op = "_check_rate_limit",
                             !.at = now,
                             !.key = tool_name,
                             !.allowed = rate.allowed ]
    /\ allowed_calls' =
          IF rate.allowed /\ tool_name \in DOMAIN allowed_calls
          THEN [ allowed_calls EXCEPT ![tool_name] = Append(@, now) ]
          ELSE allowed_calls
    /\ n_calls' = n_calls + 1
    /\ UNCHANGED << safety_level, audit_log, now, profile, req,
                    dbus_calls, facade_checks, next_request >>

\* a check_operation that lets clipboard.write through only at the levels the
\* method gate allows writes at
CheckOperation_AtLevel(tool_name, arguments) ==
    LET r == check_operation(operation_history, audit_log, now, tool_name,
                             arguments, profile)
        permitted == tool_name # t_clipboard_write
                        \/ safety_level \in { SAFETY_MEDIUM, SAFETY_LOW }
    IN
    /\ n_calls < MaxOps
    /\ operation_history' = r.history
    /\ audit_log' = r.audit_log
    /\ ret' = [ NoRet EXCEPT !.op = "check_operation",
                             !.at = now,
                             !.key = tool_name,
                             !.allowed = r.allowed /\ permitted,
                             !.reason = r.reason ]
    /\ allowed_calls' =
          IF /\ ~ is_forbidden(tool_name)
             /\ check_rate_limit(operation_history, tool_name, now).allowed
             /\ tool_name \in DOMAIN allowed_calls
          THEN [ allowed_calls EXCEPT ![tool_name] = Append(@, now) ]
          ELSE allowed_calls
    /\ n_calls' = n_calls + 1
    /\ UNCHANGED << safety_level, now, profile, req,
                    dbus_calls, facade_checks, next_request >>

\* a call of SecurityPolicy.check_operation with the server's profile
CheckOperation(tool_name, arguments) ==
    LET r == check_operation(operation_history, audit_log, now, tool_name,
                             arguments, profile) IN
    /\ n_calls < MaxOps
    /\ operation_history' = r.history
    /\ audit_log' = r.audit_log
    /\ ret' = [ NoRet EXCEPT !.op = "check_operation",
                             !.at = now,
                             !.key = tool_name,
                             !.allowed = r.allowed,
                             !.reason = r.reason ]
    /\ allowed_calls' =
          IF /\ ~ is_forbidden(tool_name)
             /\ check_rate_limit(operation_history, tool_name, now).allowed
             /\ tool_name \in DOMAIN allowed_calls
          THEN [ allowed_calls EXCEPT ![tool_name] = Append(@, now) ]
          ELSE allowed_calls
    /\ n_calls' = n_calls + 1
    /\ UNCHANGED << safety_level, now, profile, req,
                    dbus_calls, facade_checks, next_request >>

\* the call_method tool (registry_fastmcp.py): the engine is asked first, the
\* method is called on the bus when it agrees and the bus object is there
CallMethod(service, interface, method, bus_available) ==
    LET allowed == is_method_allowed(safety_level, service, interface, method) IN
    /\ next_request <= MaxRequests
    /\ facade_checks' = facade_checks \cup
          { [ request |-> next_request, allowed |-> allowed ] }
    /\ dbus_calls' =
          IF allowed /\ bus_available
          THEN dbus_calls \cup { [ request |-> next_request, method |-> method ] }
          ELSE dbus_calls
    /\ next_request' = next_request + 1
    /\ UNCHANGED << safety_level, operation_history, audit_log, now, profile, req,
                    ret, allowed_calls, n_calls >>

\* the notify tool: Notify is called on the notification service
Notify ==
    /\ next_request <= MaxRequests
    /\ dbus_calls' = dbus_calls \cup
          { [ request |-> next_request, method |-> m_Notify ] }
    /\ next_request' = next_request + 1
    /\ UNCHANGED << safety_level, operation_history, audit_log, now, profile, req,
                    ret, allowed_calls, n_calls, facade_checks >>

\* the clipboard_write tool, registered when the profile has a clipboard:
\* with the Klipper adapter the profile's write method is called
ClipboardWrite ==
    /\ next_request <= MaxRequests
    /\ profile.available_tools[c_clipboard]
    /\ dbus_calls' =
          IF profile.clipboard_adapter = "klipper"
          THEN dbus_calls \cup
                 { [ request |-> next_request, method |-> setClipboardContents ] }
          ELSE dbus_calls
    /\ next_request' = next_request + 1
    /\ UNCHANGED << safety_level, operation_history, audit_log, now, profile, req,
                    ret, allowed_calls, n_calls, facade_checks >>

\* the capture_active_window tool, registered when there is a display:
\* CaptureActiveWindow is called on KWin's screenshot service
CaptureActiveWindow ==
    /\ next_request <= MaxRequests
    /\ profile.has_display
    /\ dbus_calls' = dbus_calls \cup
          { [ request |-> next_request, method |-> m_CaptureActiveWindow ] }
    /\ next_request' = next_request + 1
    /\ UNCHANGED << safety_level, operation_history, audit_log, now, profile, req,
                    ret, allowed_calls, n_calls, facade_checks >>

\* the capture_screen and capture_active_window tools of
\* tools/common/screenshot.py: the handler calls security.check_operation
\* with the positional arguments below.  A call that does not bind every
\* parameter raises TypeError before the body of check_operation runs; the
\* handler catches it and answers with an error.  Otherwise the handler goes
\* on to the bus when the check allows it.
ScreenshotTool(target) ==
    LET positional == << t_capture_screenshot,
                         [ type |-> target.type, target |-> target.target ] >>
        raised == Len(positional) # CheckOperationParameters
        r == check_operation(operation_history, audit_log, now, positional[1],
                             positional[2], profile)
    IN  /\ n_calls < MaxOps
        /\ operation_history' = IF raised THEN operation_history ELSE r.history
        /\ audit_log' = IF raised THEN audit_log ELSE r.audit_log
        /\ ret' = IF raised
                  THEN [ op |-> "check_operation", at |-> now,
                         key |-> positional[1], raised |-> "TypeError",
                         allowed |-> FALSE, reason |-> "" ]
                  ELSE [ NoRet EXCEPT !.op = "check_operation",
                                      !.at = now,
                                      !.key = positional[1],
                                      !.allowed = r.allowed,
                                      !.reason = r.reason ]
        /\ dbus_calls' =
              IF ~ raised /\ r.allowed
              THEN dbus_calls \cup
                     { [ request |-> next_request,
                         method |-> IF profile.name = "kde-arch"
                                    THEN target.kde_method
                                    ELSE target.method ] }
              ELSE dbus_calls
        /\ allowed_calls' =
              IF ~ raised /\ HistoryOf(r.history, positional[1])
                                # HistoryOf(operation_history, positional[1])
                 /\ positional[1] \in DOMAIN allowed_calls
              THEN [ allowed_calls EXCEPT ![positional[1]] = Append(@, now) ]
              ELSE allowed_calls
        /\ n_calls' = n_calls + 1
        /\ UNCHANGED << safety_level, now, profile, req, facade_checks,
                        next_request >>

\* ------------------------------------------------------------ specifications

NextGate ==
    \/ ret.op = "none" /\ IsMethodAllowed(req.service, req.interface, req.method)
    \/ ret.op = "none" /\ CategorizeMethod(req.method)
    \/ ret.op = "none" /\ GetMethodInteractionInfo(req.method)

\* one call of the method gate, of the classifier or of the interaction
\* advisory, on drawn arguments
SpecGate == InitGate /\ [][NextGate]_vars

NextRate ==
    \/ \E tool_name \in RateKeys : CheckRateLimit(tool_name)
    \/ \E d \in TickSteps : Tick(d)

\* the rate limiter under checks of two keys as time passes
SpecRate == InitRate /\ [][NextRate]_vars

Next ==
    \/ \E tool_name \in OperationNames, arguments \in ArgumentMaps :
          CheckOperation(tool_name, arguments)
    \/ \E method \in RequestedMethods :
          n_calls < MaxOps /\ IsMethodAllowed(org_kde_klipper,
                                              "org.kde.klipper.klipper", method)
    \/ \E d \in WindowSteps : Tick(d)

\* the engine's two public checks, called by the server as time passes
Spec == Init /\ [][Next]_vars

NextTools ==
    \/ \E service \in Services, interface \in Interfaces,
          method \in RequestedMethods, bus_available \in BOOLEAN :
          CallMethod(service, interface, method, bus_available)
    \/ ClipboardWrite
    \/ CaptureActiveWindow
    \/ Notify

\* the tool handlers of the server, serving client requests one after another
SpecTools == Init /\ [][NextTools]_vars

\* ------------------------------------------ one tool under check_operation

\* the tool names one engine is driven with, one name per run: those of the
\* public checks, the forbidden list and a name without a category prefix
CheckedToolNames == OperationNames \cup FORBIDDEN_OPERATIONS \cup { t_notify }

\* how often the tool has been checked before the run starts: never, one
\* short of its rate limit, or up to its rate limit
PriorChecks(tool_name) ==
    { 0, RateLimitOf(tool_name) - 1, RateLimitOf(tool_name) }

\* the clock advances to the edge of a rate window, or past it
BoundarySteps == { OneMinute, OneMinute + 1 }

\* the stores after n calls check_operation(tool_name, arguments, prof) made
\* on a fresh engine at time 0, for n up to the tool's rate limit: none of
\* the calls is rate limited, so each one leaves the records the first one
\* leaves and, unless the tool is forbidden, one timestamp
AfterChecks(n, tool_name, arguments, prof) ==
    LET once == check_operation(<< >>, << >>, 0, tool_name, arguments, prof)
        records == Len(once.audit_log)
    IN  [ history |->
              IF n = 0 \/ once.history = << >>
              THEN << >>
              ELSE HistoryPut(<< >>, tool_name, Repeat(0, n)),
          audit_log |->
              [ i \in 1..(n * records) |->
                  once.audit_log[((i - 1) % records) + 1] ] ]

\* an engine that has served some calls of one tool at time 0, and the tool
\* and arguments it is called with next
InitCheck ==
    /\ \E arg \in SafetyArgs : safety_level = InitSafetyLevel(arg)
    /\ profile \in Profiles
    /\ req \in [ tool_name : CheckedToolNames, arguments : ArgumentMaps ]
    /\ \E n \in PriorChecks(req.tool_name) :
         LET before == AfterChecks(n, req.tool_name, req.arguments, profile) IN
         /\ operation_history = before.history
         /\ audit_log = before.audit_log
         /\ allowed_calls =
               [ k \in RateKeys |-> HistoryOf(before.history, k) ]
    /\ now = 0
    /\ ret = NoRet
    /\ n_calls = 0
    /\ dbus_calls = {}
    /\ facade_checks = {}
    /\ next_request = 1

NextCheck ==
    \/ CheckOperation(req.tool_name, req.arguments)
    \/ CheckOperation(t_screenshot, req.arguments)
    \/ \E d \in BoundarySteps : Tick(d)

\* check_operation called with one tool, and with the screenshot tool, as
\* time passes
SpecCheck == InitCheck /\ [][NextCheck]_vars

\* ------------------------------------------------- one argument map, logged

\* the keys and values of the argument maps handed to _sanitize_arguments
SanitizeKeys == { "password", "token", "secret", "key", "title", "Password" }
SanitizeValues == { "x", "<redacted>" }

\* every map from some of the keys to the values
SanitizeArgumentMaps ==
    UNION { [ fields -> SanitizeValues ] : fields \in SUBSET SanitizeKeys }

\* the results _audit_log is called with
AuditResults == { "check_started", "allowed", "forbidden" }

\* a fresh engine and the argument map of the calls
InitSanitize ==
    /\ InitEngine
    /\ profile = KDEArchProfile(TRUE, "systemd")
    /\ req \in [ arguments : SanitizeArgumentMaps ]

\* a call of SecurityPolicy._sanitize_arguments: what it returns, and the
\* caller's map before and after the call
SanitizeArguments(arguments) ==
    /\ n_calls < MaxOps
    /\ ret' = [ op |-> "_sanitize_arguments",
                at |-> now,
                arguments |-> arguments,
                sanitized |-> sanitize_arguments(arguments),
                arguments_after |-> ArgumentsAfterSanitize(arguments) ]
    /\ n_calls' = n_calls + 1
    /\ UNCHANGED << safety_level, operation_history, audit_log, now, profile, req,
                    allowed_calls, dbus_calls, facade_checks, next_request >>

\* a call of SecurityPolicy._audit_log
AuditLog(tool_name, arguments, result) ==
    /\ n_calls < MaxOps
    /\ audit_log' = audit_log_entry(audit_log, now, tool_name, arguments, result)
    /\ ret' = [ NoRet EXCEPT !.op = "_audit_log",
                             !.at = now,
                             !.key = tool_name,
                             !.reason = result ]
    /\ n_calls' = n_calls + 1
    /\ UNCHANGED << safety_level, operation_history, now, profile, req,
                    allowed_calls, dbus_calls, facade_checks, next_request >>

NextSanitize ==
    \/ ret.op = "none" /\ SanitizeArguments(req.arguments)
    \/ \E result \in AuditResults : AuditLog(t_notify, req.arguments, result)

\* one argument map sanitized once, or logged by some calls of _audit_log
SpecSanitize == InitSanitize /\ [][NextSanitize]_vars

\* ------------------------------------------------- the audit log at its cap

\* the audit log after n calls of _audit_log made one second apart, the
\* first at time 0, by calls of check_operation that were allowed
LogAfter(n) ==
    [ i \in 1..n |->
        [ timestamp |-> i - 1,
          tool |-> t_notify,
          arguments |-> << >>,
          result |-> IF i % 2 = 1 THEN "check_started" ELSE "allowed" ] ]

\* how many records the log holds when the run starts: none, one, a few short
\* of the cap, or as many as the cap lets stand
LogLengths == { 0, 1, AuditCap - 2, AuditCap - 1, AuditCap }

\* an engine whose audit log holds that many records
InitAudit ==
    /\ safety_level = InitSafetyLevel(None)
    /\ operation_history = << >>
    /\ \E n \in LogLengths :
         /\ audit_log = LogAfter(n)
         /\ now = n
    /\ ret = NoRet
    /\ allowed_calls = [ k \in RateKeys |-> << >> ]
    /\ n_calls = 0
    /\ dbus_calls = {}
    /\ facade_checks = {}
    /\ next_request = 1
    /\ profile = KDEArchProfile(TRUE, "systemd")
    /\ req = NoReq

\* the limits get_audit_log is called with
AuditLimits == (0..MaxLimit) \cup { DefaultLimit }

\* a call of SecurityPolicy.get_audit_log
GetAuditLog(limit) ==
    /\ n_calls < MaxOps
    /\ ret' = [ op |-> "get_audit_log",
                at |-> now,
                limit |-> limit,
                records |-> get_audit_log(audit_log, limit) ]
    /\ n_calls' = n_calls + 1
    /\ UNCHANGED << safety_level, operation_history, audit_log, now, profile, req,
                    allowed_calls, dbus_calls, facade_checks, next_request >>

NextAudit ==
    \/ \E arguments \in ArgumentMaps, result \in AuditResults :
          AuditLog(t_notify, arguments, result)
    \/ \E limit \in AuditLimits : GetAuditLog(limit)

\* records added to an audit log that is empty, or about to be truncated
SpecAudit == InitAudit /\ [][NextAudit]_vars

\* --------------------------------------------- the method gate on a used engine

\* an engine on which the screenshot tool has been checked at time 0, never
\* or up to its rate limit
InitLoaded ==
    /\ \E arg \in SafetyArgs : safety_level = InitSafetyLevel(arg)
    /\ profile = KDEArchProfile(TRUE, "systemd")
    /\ req = [ tool_name |-> t_screenshot,
               arguments |-> [ type |-> "screen", target |-> "full_screen" ] ]
    /\ \E n \in { 0, RateLimitOf(t_screenshot) } :
         LET before == AfterChecks(n, req.tool_name, req.arguments, profile) IN
         /\ operation_history = before.history
         /\ audit_log = before.audit_log
         /\ allowed_calls =
               [ k \in RateKeys |-> HistoryOf(before.history, k) ]
    /\ now = 0
    /\ ret = NoRet
    /\ n_calls = 0
    /\ dbus_calls = {}
    /\ facade_checks = {}
    /\ next_request = 1

NextLoaded ==
    \/ \E service \in Services, method \in RequestedMethods :
          n_calls < MaxOps /\ IsMethodAllowed(service, "org.kde.klipper.klipper",
                                              method)
    \/ CheckOperation(req.tool_name, req.arguments)
    \/ \E target \in ScreenshotTargets : ScreenshotTool(target)
    \/ \E d \in WindowSteps : Tick(d)

\* the method gate and the screenshot tools, between checks of a tool that
\* is at its rate limit
SpecLoaded == InitLoaded /\ [][NextLoaded]_vars

\* ------------------------------------------------------ the engine constructed

\* no SecurityPolicy has been constructed yet
NoEngine == "<no engine>"

\* the process before SecurityPolicy(safety_level) is evaluated, and the
\* value it will be given
InitConstruct ==
    /\ req \in [ safety_level : SafetyArgs ]
    /\ safety_level = NoEngine
    /\ operation_history = << >>
    /\ audit_log = << >>
    /\ now = 0
    /\ ret = NoRet
    /\ allowed_calls = [ k \in RateKeys |-> << >> ]
    /\ n_calls = 0
    /\ dbus_calls = {}
    /\ facade_checks = {}
    /\ next_request = 1
    /\ profile = KDEArchProfile(TRUE, "systemd")

\* SecurityPolicy.__init__
Construct(arg) ==
    /\ safety_level = NoEngine
    /\ safety_level' = InitSafetyLevel(arg)
    /\ operation_history' = << >>
    /\ audit_log' = << >>
    /\ ret' = [ NoRet EXCEPT !.op = "__init__", !.at = now ]
    /\ UNCHANGED << now, profile, req, allowed_calls, n_calls, dbus_calls,
                    facade_checks, next_request >>

NextConstruct ==
    \/ Construct(req.safety_level)
    \/ \E service \in Services, interface \in Interfaces,
          method \in RequestedMethods :
          /\ safety_level # NoEngine
          /\ n_calls < MaxOps
          /\ IsMethodAllowed(service, interface, method)

\* an engine constructed with some value, then asked about methods
SpecConstruct == InitConstruct /\ [][NextConstruct]_vars

\* ------------------------------------------------- every public call, mixed

\* the method names the advisory is asked about
AdvisedMethods == { m_Get, m_Foo, <<"q","u","e","r","y">> }

NextCalls ==
    \/ NextLoaded
    \/ \E method \in AdvisedMethods :
          n_calls < MaxOps /\ GetMethodInteractionInfo(method)
    \/ \E limit \in AuditLimits : GetAuditLog(limit)
    \/ GetRateLimitStatus

\* the public calls of the engine in any order, on a fresh or a used engine
SpecCalls == InitLoaded /\ [][NextCalls]_vars

\* ------------------------------------------- call_method of tools/registry.py

\* the call_method tool of tools/registry.py: the handler constructs a
\* SecurityPolicy() of its own, asks it, and calls the method on the bus when
\* it agrees and the bus object is there
CallMethodRegistry(service, interface, method, bus_available) ==
    LET security_level == InitSafetyLevel(None)
        allowed == is_method_allowed(security_level, service, interface, method)
    IN  /\ next_request <= MaxRequests
        /\ ret' = [ NoRet EXCEPT !.op = "call_method",
                                 !.at = now,
                                 !.key = method,
                                 !.service = service,
                                 !.interface = interface,
                                 !.allowed = allowed ]
        /\ dbus_calls' =
              IF allowed /\ bus_available
              THEN dbus_calls \cup
                     { [ request |-> next_request, method |-> method ] }
              ELSE dbus_calls
        /\ next_request' = next_request + 1
        /\ UNCHANGED << safety_level, operation_history, audit_log, now, profile,
                        req, allowed_calls, n_calls, facade_checks >>

NextRegistry ==
    \E service \in Services, interface \in Interfaces,
       method \in RequestedMethods, bus_available \in BOOLEAN :
       CallMethodRegistry(service, interface, method, bus_available)

\* the server started at some level, serving call_method requests
SpecRegistry == Init /\ [][NextRegistry]_vars

\* ------------------------------------------------ request tasks on one engine

\* the request tasks in flight
Tasks == 1..NumTasks

\* the tool every task asks for, and its arguments
TaskTool == t_screenshot
TaskArguments == [ type |-> "screen", target |-> "full_screen" ]

\* an await between the comparison and the recording
Awaits_BeforeRecord(position) == position = "record"

\* the positions of a task inside check_operation at which it hands the
\* event loop to another task: check_operation and _check_rate_limit are
\* plain functions without an await
Awaits(position) == FALSE

\* a task that has not been started, and its local variables
PendingTask ==
    [ pc |-> "pending", now |-> 0, cleaned |-> << >>, allowed |-> FALSE ]

\* the tasks are created together, on a fresh engine or on one that has
\* recorded all but one of the calls the tool's limit allows
InitTasks ==
    /\ safety_level = InitSafetyLevel(None)
    /\ profile = KDEArchProfile(TRUE, "systemd")
    /\ \E n \in { 0, RateLimitOf(TaskTool) - 1 } :
         LET before == AfterChecks(n, TaskTool, TaskArguments, profile) IN
         /\ operation_history = before.history
         /\ audit_log = before.audit_log
         /\ allowed_calls =
               [ k \in RateKeys |-> HistoryOf(before.history, k) ]
    /\ req = [ running |-> 0, tasks |-> [ task \in Tasks |-> PendingTask ] ]
    /\ now = 0
    /\ ret = NoRet
    /\ n_calls = 0
    /\ dbus_calls = {}
    /\ facade_checks = {}
    /\ next_request = 1

\* the task may run: it holds the event loop, or nobody does
MayRun(task) == req.running \in { 0, task }

\* the tasks after the task has moved on: it keeps the event loop unless it
\* awaits or has returned
Moved(task, state) ==
    [ running |-> IF Awaits(state.pc) \/ state.pc = "returned" THEN 0 ELSE task,
      tasks |-> [ req.tasks EXCEPT ![task] = state ] ]

\* check_operation is entered: the check_started record, the forbidden list
TaskCall(task) ==
    LET self == req.tasks[task]
        started == audit_log_entry(audit_log, now, TaskTool, TaskArguments,
                                   "check_started")
    IN  /\ self.pc = "pending"
        /\ MayRun(task)
        /\ IF is_forbidden(TaskTool)
           THEN /\ audit_log' = audit_log_entry(started, now, TaskTool,
                                                TaskArguments, "forbidden")
                /\ req' = Moved(task, [ self EXCEPT !.pc = "returned" ])
           ELSE /\ audit_log' = started
                /\ req' = Moved(task, [ self EXCEPT !.pc = "prune" ])
        /\ UNCHANGED << safety_level, operation_history, now, profile, ret,
                        allowed_calls, n_calls, dbus_calls, facade_checks,
                        next_request >>

\* _check_rate_limit: the clock is read and the list of recent timestamps built
TaskPrune(task) ==
    LET self == req.tasks[task] IN
    /\ self.pc = "prune"
    /\ MayRun(task)
    /\ req' = Moved(task,
                 [ self EXCEPT
                     !.pc = "assign",
                     !.now = now,
                     !.cleaned = CleanOldEntries(
                         HistoryOf(operation_history, HistoryKey(TaskTool)), now) ])
    /\ UNCHANGED << safety_level, operation_history, audit_log, now, profile, ret,
                    allowed_calls, n_calls, dbus_calls, facade_checks,
                    next_request >>

\* _check_rate_limit: the list is stored under the key
TaskAssign(task) ==
    LET self == req.tasks[task] IN
    /\ self.pc = "assign"
    /\ MayRun(task)
    /\ operation_history' =
          HistoryPut(operation_history, HistoryKey(TaskTool), self.cleaned)
    /\ req' = Moved(task, [ self EXCEPT !.pc = "compare" ])
    /\ UNCHANGED << safety_level, audit_log, now, profile, ret,
                    allowed_calls, n_calls, dbus_calls, facade_checks,
                    next_request >>

\* _check_rate_limit: the length of the stored list against the limit
TaskCompare(task) ==
    LET self == req.tasks[task]
        stored == HistoryOf(operation_history, HistoryKey(TaskTool))
    IN  /\ self.pc = "compare"
        /\ MayRun(task)
        /\ req' = Moved(task,
                     IF AtLimit(stored, RateLimitOf(TaskTool))
                     THEN [ self EXCEPT !.pc = "verdict", !.allowed = FALSE ]
                     ELSE [ self EXCEPT !.pc = "record" ])
        /\ UNCHANGED << safety_level, operation_history, audit_log, now, profile,
                        ret, allowed_calls, n_calls, dbus_calls, facade_checks,
                        next_request >>

\* _check_rate_limit: the call is recorded
TaskRecord(task) ==
    LET self == req.tasks[task]
        stored == HistoryOf(operation_history, HistoryKey(TaskTool))
    IN  /\ self.pc = "record"
        /\ MayRun(task)
        /\ operation_history' =
              HistoryPut(operation_history, HistoryKey(TaskTool),
                         Append(stored, self.now))
        /\ allowed_calls' =
              [ allowed_calls EXCEPT ![TaskTool] = Append(@, self.now) ]
        /\ req' = Moved(task, [ self EXCEPT !.pc = "verdict", !.allowed = TRUE ])
        /\ UNCHANGED << safety_level, audit_log, now, profile, ret, n_calls,
                        dbus_calls, facade_checks, next_request >>

\* check_operation after the rate limiter: the profile, the init system, the
\* verdict record and the pair returned
TaskReturn(task) ==
    LET self == req.tasks[task]
        tool_category == SplitFirst(TaskTool)
        verdict ==
            IF ~ self.allowed
            THEN [ allowed |-> FALSE, reason |-> "Rate limit exceeded",
                   result |-> "rate_limited" ]
            ELSE IF tool_category \in DOMAIN profile.available_tools
                    /\ ~ profile.available_tools[tool_category]
            THEN [ allowed |-> FALSE,
                   reason |-> "Tool category not available in profile",
                   result |-> "not_available_in_profile" ]
            ELSE IF StartsWith(TaskTool, system_dot)
                    /\ profile.init_system # "systemd"
            THEN [ allowed |-> FALSE, reason |-> "System tools require systemd",
                   result |-> None ]
            ELSE [ allowed |-> TRUE, reason |-> "Operation allowed",
                   result |-> "allowed" ]
    IN  /\ self.pc = "verdict"
        /\ MayRun(task)
        /\ audit_log' =
              IF verdict.result = None THEN audit_log
              ELSE audit_log_entry(audit_log, now, TaskTool, TaskArguments,
                                   verdict.result)
        /\ ret' = [ NoRet EXCEPT !.op = "check_operation",
                                 !.at = self.now,
                                 !.key = TaskTool,
                                 !.allowed = verdict.allowed,
                                 !.reason = verdict.reason ]
        /\ req' = Moved(task, [ self EXCEPT !.pc = "returned" ])
        /\ UNCHANGED << safety_level, operation_history, now, profile,
                        allowed_calls, n_calls, dbus_calls, facade_checks,
                        next_request >>

NextTasks ==
    \/ \E task \in Tasks : TaskCall(task)
    \/ \E task \in Tasks : TaskPrune(task)
    \/ \E task \in Tasks : TaskAssign(task)
    \/ \E task \in Tasks : TaskCompare(task)
    \/ \E task \in Tasks : TaskRecord(task)
    \/ \E task \in Tasks : TaskReturn(task)
    \/ \E d \in TickSteps : Tick(d)

\* several request tasks calling check_operation for one tool on the event
\* loop, as time passes
SpecTasks == InitTasks /\ [][NextTasks]_vars

\* ---------------------------------------------- the catalog's own exact names

\* the pattern holds no wildcard
WildcardFree(pattern) ==
    \A i \in 1..Len(pattern) : pattern[i] \notin { "*", "?", "[" }

\* the wildcard-free patterns of the catalog
ExactPatterns ==
    UNION { { OPERATION_CATEGORIES[c].patterns[j] :
                j \in { j \in 1..Len(OPERATION_CATEGORIES[c].patterns) :
                          WildcardFree(OPERATION_CATEGORIES[c].patterns[j]) } } :
            c \in 1..Len(OPERATION_CATEGORIES) }

\* one call of the method gate, of the classifier or of the interaction
\* advisory on a name the catalog lists as it stands
InitCatalog ==
    /\ InitEngine
    /\ profile = KDEArchProfile(TRUE, "systemd")
    /\ req \in [ service : Services, interface : Interfaces,
                 method : ExactPatterns ]

SpecCatalog == InitCatalog /\ [][NextGate]_vars

\* ------------------------------------------------------- the method gate, checked

\* the method name matches no pattern of any category
MatchesNoPattern(method) ==
    \A i \in 1..Len(OPERATION_CATEGORIES) :
        \A j \in 1..Len(OPERATION_CATEGORIES[i].patterns) :
            ~ fnmatch(method, OPERATION_CATEGORIES[i].patterns[j])

\* the positions, in declared order, of the categories with a matching pattern
MatchingCategories(method) ==
    { i \in 1..Len(OPERATION_CATEGORIES) :
        \E j \in 1..Len(OPERATION_CATEGORIES[i].patterns) :
            fnmatch(method, OPERATION_CATEGORIES[i].patterns[j]) }

\* the method name matches a pattern of a category flagged forbidden
MatchesForbiddenPattern(method) ==
    \E i \in MatchingCategories(method) : OPERATION_CATEGORIES[i].forbidden

\* C1: fail-closed default. A call of is_method_allowed on a method name that
\* matches no pattern of any category returns false, at every safety level
\* and for every service and interface name.
C1_FailClosed ==
    (ret.op = "is_method_allowed" /\ MatchesNoPattern(ret.key))
        => ~ ret.allowed

\* C1 witness: an unmatched, non-empty method name was denied at level low on
\* the Klipper service
C1_Witness ==
    /\ ret.op = "is_method_allowed"
    /\ MatchesNoPattern(ret.key)
    /\ ret.key # << >>
    /\ safety_level = "low"
    /\ Contains(klipper, ret.service)
    /\ ~ ret.allowed

\* C2 as stated: forbidden overrides tier. A call of is_method_allowed at
\* level low on a method name that matches a pattern of a forbidden category
\* returns false.
C2_ForbiddenDeniedAtLow ==
    (ret.op = "is_method_allowed" /\ safety_level = "low"
        /\ MatchesForbiddenPattern(ret.key))
        => ~ ret.allowed

\* the levels at which a tier is open, as the lattice states them
TierPermits(tier, level) ==
    CASE tier = "high" -> level \in {"high", "medium", "low"}
      [] tier = "medium" -> level \in {"medium", "low"}
      [] tier = "low" -> level = "low"
      [] OTHER -> FALSE

\* C3: monotonic lattice. A method name classified into a non-forbidden
\* category is allowed exactly at the levels its tier is open at (high: all
\* three; medium: medium and low; low: low only); and whatever is allowed at a
\* level is allowed, for the same arguments, at each more permissive level.
C3_MonotonicLattice ==
    ret.op = "is_method_allowed" =>
        LET category == categorize_method(ret.key) IN
        /\ (category # None /\ ~ CategoryInfo(category).forbidden)
              => (ret.allowed <=>
                    TierPermits(CategoryInfo(category).safety_level, safety_level))
        /\ (ret.allowed /\ safety_level = "high")
              => is_method_allowed("medium", ret.service, ret.interface, ret.key)
        /\ (ret.allowed /\ safety_level \in {"high", "medium"})
              => is_method_allowed("low", ret.service, ret.interface, ret.key)

\* C3 witness: a method of a medium-tier category was allowed at level low
C3_Witness ==
    /\ ret.op = "is_method_allowed"
    /\ safety_level = "low"
    /\ ret.allowed
    /\ categorize_method(ret.key) # None
    /\ CategoryInfo(categorize_method(ret.key)).safety_level = "medium"

\* C9: classifier determinism. _categorize_method returns the first category,
\* in declared order, that has a pattern matching the name, and None exactly
\* when no category has one.
C9_FirstMatch ==
    ret.op = "_categorize_method" =>
        LET matching == MatchingCategories(ret.key) IN
        IF matching = {}
        THEN ret.category = None
        ELSE LET first == CHOOSE i \in matching : \A k \in matching : i <= k
             IN  ret.category = OPERATION_CATEGORIES[first].name

\* C9 witness: a name matched by patterns of two or more categories was
\* classified
C9_Witness ==
    /\ ret.op = "_categorize_method"
    /\ Cardinality(MatchingCategories(ret.key)) >= 2
    /\ ret.category # None

\* ------------------------------------------------------ the rate limiter, checked

\* the limit the table gives each exercised key: screenshot has its own entry,
\* capture_screenshot falls under 'default'
StatedLimit(tool_name) == IF tool_name = t_screenshot THEN 5 ELSE 60

\* the number of passed checks of the key in the 60 seconds up to time t
AllowedInWindow(tool_name, t) ==
    Len(SelectSeq(allowed_calls[tool_name],
                  LAMBDA ts : ts > t - 60 /\ ts <= t))

\* the step is a rate-limit check of the key
CheckStep(tool_name) ==
    /\ n_calls' = n_calls + 1
    /\ ret'.op = "_check_rate_limit"
    /\ ret'.key = tool_name

\* C5: rate window bound. With limit N for key K, no window of 60 seconds
\* (t-60, t] holds more than N passed checks of K; a check is denied only
\* when the window ending at it already holds N passed checks, so from an
\* empty history the first N checks within a window pass and the next is denied.
C5_RateWindowBound ==
    /\ \A k \in RateKeys : \A t \in 0..now :
          AllowedInWindow(k, t) <= StatedLimit(k)
    /\ (ret.op = "_check_rate_limit" /\ ~ ret.allowed)
          => AllowedInWindow(ret.key, ret.at) = StatedLimit(ret.key)

\* C5 witness: on a fresh engine five checks of screenshot passed and the
\* sixth, in the same window, was denied
C5_Witness ==
    /\ ret.op = "_check_rate_limit"
    /\ ret.key = t_screenshot
    /\ ~ ret.allowed
    /\ n_calls = 6
    /\ Len(allowed_calls[t_screenshot]) = 5
    /\ t_capture_screenshot \notin DOMAIN operation_history

\* C6: rate window recovery. A check of key K made more than 60 seconds after
\* the oldest call K's history retains is allowed, whatever was denied in
\* between.
C6_Recovery ==
    [][ \A k \in RateKeys :
          ( /\ CheckStep(k)
            /\ HistoryOf(operation_history, k) # << >>
            /\ now > Head(HistoryOf(operation_history, k)) + 60 )
          => ret'.allowed ]_vars

\* C6 witness: seven checks of screenshot alone; five passed at time 0, one
\* was denied, and the check at time 61 passed
C6_Witness ==
    /\ ret.op = "_check_rate_limit"
    /\ ret.key = t_screenshot
    /\ ret.allowed
    /\ ret.at = 61
    /\ n_calls = 7
    /\ allowed_calls[t_screenshot] = << 0, 0, 0, 0, 0, 61 >>
    /\ t_capture_screenshot \notin DOMAIN operation_history

\* the timestamps of a history that are less than 60 seconds old at time t
Unexpired(timestamps, t) ==
    SelectSeq(timestamps, LAMBDA ts : t - ts < 60)

\* C7: a denied rate-limit check records no timestamp. After a denied check of
\* key K the stored history of K is exactly the unexpired part of what it was.
C7_DeniedRecordsNothing ==
    [][ \A k \in RateKeys :
          (CheckStep(k) /\ ~ ret'.allowed)
          => HistoryOf(operation_history', k)
                = Unexpired(HistoryOf(operation_history, k), now) ]_vars

\* C7 witness: a second denial in a row of screenshot, the history still
\* holding the five recorded calls
C7_Witness ==
    /\ ret.op = "_check_rate_limit"
    /\ ret.key = t_screenshot
    /\ ~ ret.allowed
    /\ ret.at > 0
    /\ n_calls = 7
    /\ Len(allowed_calls[t_screenshot]) = 5
    /\ Len(HistoryOf(operation_history, t_screenshot)) = 5

\* C8: per-key isolation. A check of another key leaves the history of key K
\* as it was and does not change whether a check of K would pass.
C8_Isolation ==
    [][ \A k \in RateKeys : \A j \in RateKeys \ {k} :
          CheckStep(j)
          => /\ HistoryOf(operation_history', k) = HistoryOf(operation_history, k)
             /\ check_rate_limit(operation_history', k, now').allowed
                  = check_rate_limit(operation_history, k, now).allowed ]_vars

\* C8 witness: with screenshot at its limit of five, a check of
\* capture_screenshot passed
C8_Witness ==
    /\ ret.op = "_check_rate_limit"
    /\ ret.key = t_capture_screenshot
    /\ ret.allowed
    /\ Len(HistoryOf(operation_history, t_screenshot)) = 5
    /\ ~ check_rate_limit(operation_history, t_screenshot, now).allowed

\* ------------------------------------------------------------ the facade, checked

\* C4 as stated: every privileged request is mediated. Every D-Bus method call
\* a tool handler issued for a request was preceded by an engine check, made
\* for that request, that returned allow.
C4_EveryCallMediated ==
    \A c \in dbus_calls :
        \E k \in facade_checks : k.request = c.request /\ k.allowed

\* C10 as stated: every decision is audited. After a call of check_operation
\* or is_method_allowed has returned, the last record of the audit log is for
\* that operation key and its verdict is the decision returned.
C10_EveryDecisionAudited ==
    ret.op \in {"check_operation", "is_method_allowed"} =>
        /\ audit_log # << >>
        /\ audit_log[Len(audit_log)].tool = ret.key
        /\ audit_log[Len(audit_log)].result # "check_started"
        /\ ret.allowed <=> (audit_log[Len(audit_log)].result = "allowed")

\* -------------------------------------------------------- the audit log, checked

\* the results check_operation hands to _audit_log
WrittenResults ==
    { "check_started", "allowed", "forbidden", "rate_limited",
      "not_available_in_profile" }

\* C11 (as the code has it): every record of the audit log holds one of the
\* results check_operation writes: check_started for the call itself, and
\* allowed, forbidden, rate_limited or not_available_in_profile for its
\* outcome.
C11_WrittenResults ==
    \A i \in 1..Len(audit_log) : audit_log[i].result \in WrittenResults

\* a call that was rate limited has left both of its records
C11_Witness ==
    /\ ret.op = "check_operation"
    /\ Len(audit_log) >= 2
    /\ audit_log[Len(audit_log) - 1].result = "check_started"
    /\ audit_log[Len(audit_log)].result = "rate_limited"

\* C11 (as stated): every record of the audit log has a verdict among
\* allowed, forbidden, rate_limited, not_available_in_profile and
\* uncategorized_denied.
C11_VerdictSet ==
    \A i \in 1..Len(audit_log) :
        audit_log[i].result \in { "allowed", "forbidden", "rate_limited",
                                  "not_available_in_profile",
                                  "uncategorized_denied" }

\* the top-level keys whose values are never to be stored
RedactedKeys == { "password", "token", "secret", "key" }

\* C12: _sanitize_arguments returns a map equal to its input except that each
\* top-level key among password, token, secret and key maps to '<redacted>';
\* the map passed in is as it was; and no record of the audit log holds
\* another value than '<redacted>' under one of those keys.
C12_Redaction ==
    /\ ret.op = "_sanitize_arguments" =>
          /\ DOMAIN ret.sanitized = DOMAIN ret.arguments
          /\ \A field \in DOMAIN ret.arguments :
                ret.sanitized[field] =
                    IF field \in RedactedKeys THEN "<redacted>"
                    ELSE ret.arguments[field]
          /\ ret.arguments_after = ret.arguments
    /\ \A i \in 1..Len(audit_log) :
          \A field \in RedactedKeys \cap DOMAIN audit_log[i].arguments :
              audit_log[i].arguments[field] = "<redacted>"

\* a map holding a password, a key and a title has been logged twice: the
\* records hold the title as given and the other two redacted
C12_Witness ==
    /\ ret.op = "_audit_log"
    /\ Len(audit_log) = MaxOps
    /\ { "password", "key", "title" } \subseteq DOMAIN req.arguments
    /\ req.arguments["password"] = "x"
    /\ req.arguments["key"] = "x"
    /\ req.arguments["title"] = "x"
    /\ audit_log[1].arguments["title"] = "x"
    /\ audit_log[1].arguments["key"] = "<redacted>"

\* s is what full ends with
IsSuffix(s, full) ==
    /\ Len(s) <= Len(full)
    /\ s = SubSeq(full, Len(full) - Len(s) + 1, Len(full))

\* C13: after every call of _audit_log, truncating or not, the log is a
\* suffix of the log as it stood before the call with the new record added
\* at its end: the records kept are the most recent ones, in their order.
C13_TruncationKeepsSuffix ==
    [][ n_calls' = n_calls + 1 /\ ret'.op = "_audit_log" =>
          LET kept == audit_log'
              added == kept[Len(kept)]
          IN  /\ Len(kept) >= 1
              /\ added.timestamp = now
              /\ added.tool = ret'.key
              /\ added.result = ret'.reason
              /\ IsSuffix(kept, Append(audit_log, added)) ]_vars

\* a call has truncated the log
C13_Witness ==
    /\ ret.op = "_audit_log"
    /\ Len(audit_log) = AuditKeep
    /\ audit_log[1].timestamp = AuditCap - AuditKeep + 1
    /\ audit_log[AuditKeep].timestamp = now

\* the n most recent records of log, oldest first
MostRecent(log, n) ==
    LET m == IF n < Len(log) THEN n ELSE Len(log)
    IN  SubSeq(log, Len(log) - m + 1, Len(log))

\* C14: get_audit_log(limit) returns, for every limit >= 0, the
\* min(limit, length of the log) most recent records, oldest first, and
\* leaves the log as it was.
C14_MostRecent ==
    ret.op = "get_audit_log" /\ ret.limit >= 0 =>
        ret.records = MostRecent(audit_log, ret.limit)

\* ------------------------------------------------------ check_operation, checked

\* the profile switches off the category the tool name starts with
ProfileDisables(prof, tool_name) ==
    /\ SplitFirst(tool_name) \in DOMAIN prof.available_tools
    /\ ~ prof.available_tools[SplitFirst(tool_name)]

\* this step is a call of check_operation
CheckOperationStep == n_calls' = n_calls + 1 /\ ret'.op = "check_operation"

\* C15: a call of check_operation for a tool, not on the forbidden list,
\* whose category the profile switches off is denied as
\* not_available_in_profile, and no timestamp is recorded for its key: the
\* key's history is as it was, or as it was less the expired timestamps.
C15_ProfileBeforeRateLimit ==
    [][ CheckOperationStep /\ ProfileDisables(profile, ret'.key)
            /\ ~ is_forbidden(ret'.key) =>
          /\ ~ ret'.allowed
          /\ audit_log'[Len(audit_log')].result = "not_available_in_profile"
          /\ HistoryOf(operation_history', ret'.key) \in
                { HistoryOf(operation_history, ret'.key),
                  CleanOldEntries(HistoryOf(operation_history, ret'.key), now) }
      ]_vars

\* C16: a call of check_operation for a tool name on the forbidden list is
\* denied as forbidden, at every safety level, in every profile and after
\* any calls, and leaves the rate-limit store as it was.
C16_ForbiddenAlwaysDenied ==
    [][ CheckOperationStep /\ ret'.key \in FORBIDDEN_OPERATIONS =>
          /\ ~ ret'.allowed
          /\ ret'.reason = "Operation is forbidden"
          /\ audit_log'[Len(audit_log')].result = "forbidden"
          /\ operation_history' = operation_history ]_vars

\* system.reboot was denied at low, in a profile with every tool category,
\* by an engine that had recorded another tool's call
C16_Witness ==
    /\ ret.op = "check_operation"
    /\ ret.key = t_system_reboot
    /\ ~ ret.allowed
    /\ safety_level = SAFETY_LOW
    /\ profile = KDEArchProfile(TRUE, "systemd")
    /\ HistoryOf(operation_history, t_screenshot) # << >>
    /\ HistoryOf(operation_history, t_system_reboot) = << >>

\* what is_method_allowed answers on an engine that has served no call, for
\* the methods asked for: Get at every level, activate at medium and low
FreshVerdict(level, method) ==
    \/ method = m_Get
    \/ method = activate /\ level \in { SAFETY_MEDIUM, SAFETY_LOW }

\* C17: a call of is_method_allowed leaves the rate-limit store as it was,
\* and answers what it answers on an engine that has served no call, however
\* many timestamps the store holds.
C17_GateCarriesNoRateLimit ==
    [][ n_calls' = n_calls + 1 /\ ret'.op = "is_method_allowed" =>
          /\ operation_history' = operation_history
          /\ ret'.allowed = FreshVerdict(safety_level, ret'.key) ]_vars

\* the gate has allowed a method while the screenshot tool was at its limit
C17_Witness ==
    /\ ret.op = "is_method_allowed"
    /\ ret.allowed
    /\ ret.key = activate
    /\ ret.at = now
    /\ AtLimit(CleanOldEntries(HistoryOf(operation_history, t_screenshot), now),
               RateLimitOf(t_screenshot))

\* C18: every call of check_operation returns a pair (allowed, reason) with
\* a reason that is not empty, and raises nothing.
C18_AlwaysAPair ==
    ret.op = "check_operation" =>
        /\ "raised" \notin DOMAIN ret
        /\ ret.allowed \in BOOLEAN
        /\ ret.reason # ""

\* ------------------------------------------------------ the constructor, checked

\* C19: an engine constructed with high, medium or low has that level; an
\* engine constructed with anything else, None included, has level high.
C19_ConstructorFallsBackToHigh ==
    safety_level # NoEngine =>
        safety_level = IF req.safety_level \in { "high", "medium", "low" }
                       THEN req.safety_level
                       ELSE "high"

\* an engine constructed with 'paranoid' is at high and has answered a call
C19_Witness ==
    /\ req.safety_level = "paranoid"
    /\ safety_level = "high"
    /\ ret.op = "is_method_allowed"

\* ------------------------------------------------ the interaction advisory, checked

\* the interaction type of the categories that require interaction
InteractionTypeOf(category) ==
    CASE category = "interactive_selection" -> "user_selection"
      [] category = "interactive_confirmation" -> "user_confirmation"
      [] OTHER -> ""

\* the method is classified into a category that requires interaction
RequiresInteraction(method) ==
    categorize_method(method) \in
        { "interactive_selection", "interactive_confirmation" }

\* C20: a method classified into a category that requires interaction is
\* allowed by is_method_allowed at medium and at low, and
\* get_method_interaction_info returns for it an advisory with that
\* category's interaction type; for every other method, classified or not,
\* get_method_interaction_info returns None.
C20_AdvisoryIsNotDenial ==
    /\ ( /\ ret.op = "is_method_allowed"
         /\ RequiresInteraction(ret.key)
         /\ safety_level \in { "medium", "low" } ) => ret.allowed
    /\ ret.op = "get_method_interaction_info" =>
          IF RequiresInteraction(ret.key)
          THEN /\ ~ ret.info.is_none
               /\ ret.info.requires_interaction
               /\ ret.info.category = categorize_method(ret.key)
               /\ ret.info.interaction_type =
                     InteractionTypeOf(categorize_method(ret.key))
          ELSE ret.info.is_none

\* at low, the advisory for a method that starts with 'confirm' and ends
\* with 'Delete' asks for the user's confirmation
C20_Witness ==
    /\ ret.op = "get_method_interaction_info"
    /\ safety_level = "low"
    /\ ret.key = <<"c","o","n","f","i","r","m","D","e","l","e","t","e">>
    /\ ret.info.interaction_type = "user_confirmation"

\* ------------------------------------------------------ the engine's level, checked

\* C21: no call of check_operation, is_method_allowed,
\* get_method_interaction_info, get_audit_log or get_rate_limit_status, and
\* no passing of time, changes the engine's safety level.
C21_LevelImmutable ==
    [][ safety_level' = safety_level ]_vars

\* an engine at low has served a check_operation and then a status call
C21_Witness ==
    /\ safety_level = SAFETY_LOW
    /\ n_calls = MaxOps
    /\ ret.op = "get_rate_limit_status"
    /\ t_screenshot \in DOMAIN ret.status
    /\ ret.status[t_screenshot].current = 1

\* ------------------------------------------------------ the audit cap, checked

\* C22: the audit log never holds more than 10000 records; a call of
\* _audit_log on a log of fewer than 10000 records adds one record, and a
\* call on a log of 10000 records leaves exactly 5000, the 4999 most recent
\* of before and the new one.
C22_AuditBounded ==
    /\ [](Len(audit_log) <= 10000)
    /\ [][ n_calls' = n_calls + 1 /\ ret'.op = "_audit_log" =>
             IF Len(audit_log) < 10000
             THEN /\ Len(audit_log') = Len(audit_log) + 1
                  /\ SubSeq(audit_log', 1, Len(audit_log)) = audit_log
             ELSE /\ Len(audit_log') = 5000
                  /\ SubSeq(audit_log', 1, 4999) = SubSeq(audit_log, 5002, 10000)
                  /\ audit_log'[5000].timestamp = now
                  /\ audit_log'[5000].result = ret'.reason ]_vars

\* the first call made on a log of 10000 records has left 5000
C22_Witness ==
    /\ n_calls = 1
    /\ ret.op = "_audit_log"
    /\ Len(audit_log) = 5000
    /\ audit_log[4999].timestamp = 9999

\* ------------------------------------------------------ call_method, checked

\* C23: the verdict call_method acts on is the one the server's engine gives
\* at the level the server was started with; started at medium or low, it
\* lets the medium-tier method activate through.
C23_ServerEngineDecides ==
    ret.op = "call_method" =>
        /\ ret.allowed = is_method_allowed(safety_level, ret.service,
                                           ret.interface, ret.key)
        /\ (ret.key = activate /\ safety_level \in { SAFETY_MEDIUM, SAFETY_LOW })
              => ret.allowed

\* ------------------------------------------------------ request tasks, checked

\* C24: however the request tasks that call check_operation for one key are
\* scheduled, no window of 60 seconds holds more than the key's limit of
\* allowed calls, and the store holds every recorded timestamp that has not
\* expired.
C24_AtomicUnderTasks ==
    /\ \A t \in 0..now : AllowedInWindow(TaskTool, t) <= 5
    /\ Unexpired(HistoryOf(operation_history, TaskTool), now)
          = Unexpired(allowed_calls[TaskTool], now)

\* with four calls recorded, three tasks were started together: one was
\* allowed and is done, one was denied and is done, one has not run yet
C24_Witness ==
    /\ now = 0
    /\ Len(allowed_calls[TaskTool]) = 5
    /\ \E a, b, c \in Tasks :
          /\ req.tasks[a].pc = "returned" /\ req.tasks[a].allowed
          /\ req.tasks[b].pc = "returned" /\ ~ req.tasks[b].allowed
          /\ req.tasks[c].pc = "pending"

\* ------------------------------------------------- the catalog order, checked

\* the categories whose pattern list holds the name as it stands
DeclaringCategories(name) ==
    { OPERATION_CATEGORIES[c].name :
        c \in { c \in 1..Len(OPERATION_CATEGORIES) :
                  \E j \in 1..Len(OPERATION_CATEGORIES[c].patterns) :
                      OPERATION_CATEGORIES[c].patterns[j] = name } }

\* C25: a name that is itself a wildcard-free pattern of the catalog is
\* classified as a category that declares it, and as each of them when
\* several do: no earlier category takes it away.
C25_ExactPatternKeepsItsCategory ==
    ret.op = "_categorize_method"
        => DeclaringCategories(ret.key) = { ret.category }

\* --------------------------------------------- the special-cased names, checked

\* the two names is_method_allowed compares the method with after the catalog
SpecialCased == { setClipboardContents, activate }

\* C26: setClipboardContents and activate are uncategorized, so the gate
\* denies both at level high.
C26_SpecialCasedAreUncategorized ==
    /\ (ret.op = "_categorize_method" /\ ret.key \in SpecialCased)
          => ret.category = None
    /\ (ret.op = "is_method_allowed" /\ ret.key \in SpecialCased
            /\ safety_level = SAFETY_HIGH)
          => ~ ret.allowed

\* ------------------------------------------------- the window boundary, checked

\* the timestamps of a history that are at most 60 seconds old at time t
NotOlderThanWindow(timestamps, t) ==
    SelectSeq(timestamps, LAMBDA ts : t - ts <= 60)

\* C27: a rate-limit check keeps every timestamp that is at most 60 seconds
\* old, one of exactly 60 seconds included, and counts the kept ones against
\* the limit: the check made exactly 60 seconds after the first of N recorded
\* calls is denied.
C27_BoundaryRetained ==
    [][ \A k \in RateKeys :
          CheckStep(k)
          => LET kept == NotOlderThanWindow(HistoryOf(operation_history, k), now)
             IN  /\ HistoryOf(operation_history', k)
                      = IF ret'.allowed THEN Append(kept, now) ELSE kept
                 /\ (Len(kept) >= StatedLimit(k)) => ~ ret'.allowed ]_vars

\* -------------------------------------------- the bare method name, checked

CheckOutcome(allowed, reason, history, log) ==
    [ allowed |-> allowed, reason |-> reason, history |-> history,
      audit_log |-> log ]

ProfileDenied ==
    /\ ~ ret'.allowed
    /\ ret'.reason = "Tool category not available in profile"

\* the call just made left a not_available_in_profile record
ProfileDenialLogged ==
    audit_log'[Len(audit_log')].result = "not_available_in_profile"

\* the call just made was of a tool that is not forbidden and under its rate
\* limit, and whose name up to the first '.', or whole name when it has none,
\* the profile's availability map holds with the value false
ProfileDenialDue ==
    LET tool_name == ret'.key
        prefix == SplitFirst(tool_name)
    IN  /\ tool_name \notin FORBIDDEN_OPERATIONS
        /\ Len(Unexpired(HistoryOf(operation_history, tool_name), now))
              < RateLimitOf(tool_name)
        /\ prefix \in DOMAIN profile.available_tools
        /\ ~ profile.available_tools[prefix]

\* C30: check_operation denies with not_available_in_profile exactly when the
\* tool is not forbidden, not rate limited, and the part of its name before
\* the first '.' (the whole name when there is no '.') is a key of the
\* availability map with value false; a tool whose prefix is not a key is
\* never denied on profile grounds.
C30_ProfileDenial ==
    [][ CheckOperationStep
        => /\ ProfileDenied <=> ProfileDenialDue
           /\ ProfileDenialLogged <=> ProfileDenialDue
           /\ SplitFirst(ret'.key) \notin DOMAIN profile.available_tools
                 => ~ ProfileDenied ]_vars

\* C30 as stated: the same, and a tool name without a '.' is never denied on
\* profile grounds.
C30_DotlessNeverDenied ==
    [][ CheckOperationStep
        => /\ ProfileDenied <=> ProfileDenialDue
           /\ ~ Contains(<< "." >>, ret'.key) => ~ ProfileDenied ]_vars

\* C30 witness: under the generic profile clipboard.write, one call short of
\* its limit before, was denied on profile grounds and its timestamp recorded
C30_Witness ==
    /\ ret.op = "check_operation"
    /\ ret.key = t_clipboard_write
    /\ ret.reason = "Tool category not available in profile"
    /\ profile.name = "generic"
    /\ Len(HistoryOf(operation_history, t_clipboard_write))
          = RateLimitOf(t_clipboard_write)
    /\ audit_log[Len(audit_log)].result = "not_available_in_profile"

====
